---- MODULE Spec2Model ----
(***************************************************************************)
(* Model of the ClawChat UDP hole punching core                            *)
(* (src/udp_hole_punching/src): session key derivation, packet             *)
(* encryption, the hole punching loops, the Compromised Protocol, key      *)
(* rotation and the server / client glue that wires them together.         *)
(*                                                                         *)
(* Byte strings are sequences of symbolic blocks [t, v]: a literal byte or *)
(* text is an atom (v empty), the output of a hash or cipher is a block    *)
(* that records the primitive (t) and its exact input (v).  Two byte       *)
(* strings are equal exactly when they were computed from the same inputs  *)
(* in the same way (SHA-256, BLAKE2b and AES-GCM as ideal primitives).     *)
(***************************************************************************)
EXTENDS Integers, Sequences, FiniteSets, TLC

VARIABLES
    \* ---- CryptoManager exercised directly (encryption.py)
    c_keys,      \* CryptoManager._session_keys
    c_pt,        \* plaintext handed to the last encrypt_packet
    c_aad,       \* associated data handed to the last encrypt_packet
    c_enc_keys,  \* key set that was installed when that packet was made
    c_pkt,       \* the packet encrypt_packet returned
    c_wire,      \* the packet as it reaches the receiver
    c_flipped,   \* <<position, bit>> changed on the wire, or <<>>
    c_res        \* outcome of the last decrypt_packet

cvars == <<c_keys, c_pt, c_aad, c_enc_keys, c_pkt, c_wire, c_flipped, c_res>>

VARIABLES
    \* ---- two UDPHolePuncher peers (udp_hole_punch.py)
    h_now,       \* time.time(), in units of the loop's 10 ms sleep
    h_secret,    \* shared secret each peer derived its keys from
    h_keys,      \* crypto._session_keys of each peer
    h_mode,      \* "punch" or "listen": the call running on the peer
    h_expected,  \* expected_ip given to listen_for_punch (0 = None)
    h_state,     \* UDPHolePuncher.state
    h_trail,     \* the states _set_state was called with, in order
    h_pc,        \* position of the call in its loop
    h_sock,      \* TRUE while self.socket is bound and open
    h_start,     \* start_time
    h_last_send, \* last_send_time
    h_recv_at,   \* when the listener's blocking recvfrom began
    h_attempts,  \* attempts
    h_inbox,     \* datagrams queued on the peer's socket
    h_result     \* the HolePunchResult returned

hvars == <<h_now, h_secret, h_keys, h_mode, h_expected, h_state, h_trail, h_pc, h_sock,
           h_start, h_last_send, h_recv_at, h_attempts, h_inbox, h_result>>

VARIABLES
    \* ---- the client's puncher and sender against the server loop (server/main.py)
    w_to_server,     \* datagrams on their way to the server's socket
    w_to_client,     \* datagrams on their way to the client's socket
    w_peer_address,  \* ClawChatServer.peer_address
    w_received,      \* ClawChatServer.messages_received
    w_sends,         \* datagrams the client has put on its socket
    w_srv,           \* what _handle_packet did with the last datagram
    w_cli,           \* what the puncher's _parse_packet made of the last reply
    w_running        \* ClawChatServer.running

wvars == <<w_to_server, w_to_client, w_peer_address, w_received, w_sends, w_srv, w_cli,
          w_running>>

VARIABLES
    \* ---- Compromised Protocol between client (1) and server (2) (compromised.py)
    k_now,       \* int(time.time())
    k_ticks,     \* clock steps taken
    k_state,     \* CompromisedProtocolHandler.state of each side
    k_mac,       \* CompromisedProtocolHandler.mac_key of each side
    k_running,   \* ClawChatClient.running / ClawChatServer.running
    k_crypto,    \* CryptoManager._session_keys of each side
    k_net,       \* signal and ACK dictionaries that have been sent
    k_sig_calls, \* handle_compromised_signal calls made: message, time, verdict
    k_ack_call,  \* the last handle_ack_signal call: message, handler state, verdict
    k_sent,      \* encrypt_packet calls of _send_message: handler state, outcome
    k_new_file   \* TRUE once on_new_file_generated has run

kvars == <<k_now, k_ticks, k_state, k_mac, k_running, k_crypto, k_net, k_sig_calls,
           k_ack_call, k_sent, k_new_file>>

VARIABLES
    \* ---- key rotation in the server loop, with a sending client (key_rotation.py)
    r_now,       \* time.time()
    r_ticks,     \* clock steps taken
    r_rot,       \* the server's KeyRotator.state
    r_history,   \* the server's KeyRotator._key_history
    r_crypto,    \* CryptoManager._session_keys of client and server
    r_peer,      \* TRUE once the server has a peer_address
    r_wire,      \* packets of the client on their way to the server
    r_sends,     \* packets the client has sent
    r_notice,    \* KEY_ROTATION datagrams on their way to the client
    r_seen,      \* KEY_ROTATION messages the client has received
    r_res,       \* what the server's decrypt_packet made of the last packet
    r_cres,      \* what the client's decrypt_packet made of the last datagram
    r_pc         \* where the server's _process_loop stands: "loop" or "notified"

rvars == <<r_now, r_ticks, r_rot, r_history, r_crypto, r_peer, r_wire, r_sends, r_notice,
           r_seen, r_res, r_cres, r_pc>>

VARIABLES
    \* ---- bootstrap: security file, server start, client load and connect
    s_now,       \* int(time.time())
    s_ticks,     \* clock steps taken
    s_files,     \* the security files written to the security directory, oldest first
    s_gen,       \* SecurityFileGenerator._current_secret
    s_server,    \* ClawChatServer: shared_secret, connection_id, session keys, handler
    s_client     \* ClawChatClient: security_file, shared_secret, connection_id, keys, handler

svars == <<s_now, s_ticks, s_files, s_gen, s_server, s_client>>

VARIABLE
    \* ---- derive_session_keys called by independent invocations (encryption.py)
    d_log        \* the calls made so far: who called, the arguments, the keys returned

dvars == <<d_log>>

VARIABLES
    \* ---- SecurityFile.is_valid against the clock (file_manager.py)
    v_file,      \* the SecurityFile whose window is tested
    v_now,       \* int(time.time())
    v_res        \* the last is_valid() call: whether one was made, and what it returned

vvars == <<v_file, v_now, v_res>>

VARIABLES
    \* ---- SecurityFileGenerator: regeneration thread and the server's thread
    g_now,               \* time.time()
    g_ticks,             \* clock steps taken
    g_running,           \* _running
    g_client_connected,  \* _client_connected
    g_last_file_time,    \* _last_file_time
    g_files,             \* generate_file calls made so far
    g_pc,                \* where the regeneration thread stands in _regeneration_loop
    g_wake_at,           \* when its time.sleep(5) ends
    g_main,              \* where the server's thread stands in mark_client_connected
    g_late               \* generate_file calls begun after mark_client_connected returned

gvars == <<g_now, g_ticks, g_running, g_client_connected, g_last_file_time, g_files,
           g_pc, g_wake_at, g_main, g_late>>

VARIABLES
    \* ---- CompromisedProtocolHandler under repeated deliveries (compromised.py)
    o_destroyed,  \* how often each handler ran _destroy_keys
    o_accepted,   \* the messages each handler accepted
    o_replayed    \* whether a handler was handed again a message it had accepted

ovars == <<o_destroyed, o_accepted, o_replayed>>

VARIABLES
    \* ---- MessageHandler.parse_message on arbitrary buffers (messages.py)
    f_data,    \* the buffer handed to parse_message
    f_parsed   \* whether parse_message ran, and the Message it returned (NoMessage for None)

fvars == <<f_data, f_parsed>>

VARIABLES
    \* ---- CryptoManager file mode (encryption.py)
    p_plain,     \* the plaintext given to encrypt_file
    p_password,  \* the password given to encrypt_file
    p_package,   \* the package as it stands, altered or not
    p_altered,   \* what was altered in the package since encrypt_file returned it
    p_out        \* the last decrypt_file call: its password and what it returned

pvars == <<p_plain, p_password, p_package, p_altered, p_out>>

VARIABLES
    \* ---- CryptoManager packet mode, call after call (encryption.py)
    n_keys,      \* CryptoManager._session_keys
    n_installs,  \* set_session_keys calls so far
    n_packets    \* what encrypt_packet returned, call by call, since the key set was installed

nvars == <<n_keys, n_installs, n_packets>>

VARIABLES
    \* ---- one CompromisedProtocolHandler, statement by statement (compromised.py)
    t_is_server, \* CompromisedProtocolHandler.is_server
    t_cb,        \* which of on_keys_destroyed / on_new_file_generated were passed
    t_mac,       \* CompromisedProtocolHandler.mac_key
    t_state,     \* CompromisedProtocolHandler.state
    t_pc,        \* where handle_compromised_signal stands
    t_events,    \* state assignments and callback invocations of the running or last call
    t_message,   \* the message of the running or last call
    t_ret,       \* what the last call returned: "none" while it runs
    t_calls      \* handle_compromised_signal calls made

tvars == <<t_is_server, t_cb, t_mac, t_state, t_pc, t_events, t_message, t_ret, t_calls>>

VARIABLES
    \* ---- one NATDetector as ClawChatClient.detect_nat uses it (nat_detection.py)
    a_local,     \* what _get_local_addresses returns on this host
    a_pc,        \* where detect stands
    a_probes,    \* what each get_public_address call of the running or last detect returned
    a_nat,       \* what the last detect returned: "none" before it has
    a_strategy,  \* the outcome of the last get_hole_punch_strategy call
    a_calls      \* detect calls made

avars == <<a_local, a_pc, a_probes, a_nat, a_strategy, a_calls>>

VARIABLES
    \* ---- decrypt_packet and decrypt_file on inputs they refuse (encryption.py)
    e_seen       \* the calls made so far: what was wrong with the input, and the outcome

evars == <<e_seen>>

VARIABLES
    \* ---- a Message taken through to_bytes and from_bytes (messages.py)
    m_msg,       \* the Message as its constructor left it
    m_back       \* the last Message.from_bytes(m.to_bytes()): what it raised or returned

mvars == <<m_msg, m_back>>

----------------------------------------------------------------------------
(* Bounds of the model *)

\* longest plaintext handed to encrypt_packet
MaxPtLen == 1
\* number of distinct values generate_nonce can return in the CryptoManager scenario
MaxNonce == 1
\* timeout and retry_interval given to UDPHolePuncher, in 10 ms steps
PunchTimeout == 6
RetryInterval == 2
\* latest start of a punch() / listen_for_punch() call after the clock's origin
MaxStartDelay == 6
\* the clock's origin (time.time() when the scenario begins)
Epoch == 1000
\* datagrams the client sends to the server loop in one scenario
MaxSends == 3
\* clock steps in one Compromised Protocol scenario
MaxTicks == 1
\* signals put on the network, and handler calls made, in one such scenario
MaxSignals == 2
MaxCalls == 2
\* clock steps in one key rotation scenario
MaxRotTicks == 2
\* packets the client sends in one such scenario
MaxRotSends == 2
\* clock steps, and security files generated, in one bootstrap scenario
MaxSessTicks == 2
MaxFiles == 2
\* derive_session_keys calls in one derivation scenario
MaxDerive == 2
\* span of the clock and of the window edges in the validity scenario
MaxValidSpan == 4
\* clock steps, and generate_file calls, in one regeneration scenario
MaxRegenTicks == 3
MaxRegenFiles == 3
\* _destroy_keys runs counted per handler
MaxDestroy == 2
\* message_id bytes present in a buffer, bytes a length field claims beyond
\* what is there, and bytes cut off a buffer's end
MaxIdLen == 2
MaxExcess == 2
MaxCut == 2
\* draws of the random source across encrypt_file calls
MaxFileDraws == 2
\* values secrets.token_bytes(12) can return, encrypt_packet calls under one key
\* set, and set_session_keys calls
MaxDraws == 2
MaxEncrypts == 3
MaxInstalls == 2
\* handle_compromised_signal calls on one handler
MaxHandled == 2
\* detect calls on one NATDetector
MaxDetects == 2
\* decrypt calls on refused inputs that one scenario keeps
MaxFailures == 2
\* seconds by which one time.sleep(5) of the regeneration loop may overrun
MaxOversleep == 1

(* Program constants *)
NonceLen == 12
TagLen == 16
MinPacketLen == 28
DigestSize == 32
KeyMaterialLen == 128
PunchNonceLen == 16
PKT_PUNCH == 1
PKT_PUNCH_ACK == 2
\* time.sleep(0.01) is the unit of h_now; settimeout(1.0) in the same unit
SleepStep == 1
RecvTimeout == 100
\* MessageType members used by the server loop, and secrets.token_hex(8)
MessageType_PUNCH == 1
MessageType_PUNCH_ACK == 2
MessageType_KEEPALIVE == 3
MessageIdBytes == 8
MessageType_COMPROMISED == 48
MessageType_COMPROMISED_ACK == 49
\* replay window of handle_compromised_signal, seconds
ReplayWindow == 300
\* KeyRotator: seconds between rotations, grace period, advance notice, key history length
ROTATION_INTERVAL == 3600
GRACE_PERIOD == 300
ADVANCE_NOTICE == 120
HistoryLimit == 5
\* security file: validity in minutes, PBKDF2 iterations, rotation hint, grace period
VALIDITY_MINUTES == 11
Pbkdf2Iterations == 100000
NextRotationDelay == 600
FileGracePeriod == 300
\* SecurityFileGenerator: regeneration interval and the loop's sleep, in seconds
REGENERATE_INTERVAL == 600
RegenSleep == 5
MessageType_KEY_ROTATION == 32

----------------------------------------------------------------------------
(* Symbolic byte strings *)

Atom(s) == [t |-> s, v |-> <<>>]
Byte(n) == Atom(ToString(n))
Text(s) == <<Atom(s)>>

\* secrets.token_bytes(size): `id` is the value the random source returned
TokenBytes(id, size) == [i \in 1..size |-> Atom(ToString(<<"rand", id, i>>))]
\* secrets.token_bytes(32) held as one 32-byte block
Token32(id) == <<Atom(ToString(<<"rand32", id>>))>>

\* hashlib.sha256 over the concatenation of everything fed to update()
Sha256(data) == <<[t |-> "sha256", v |-> data]>>

\* data[a:b] of Python, on 1-based sequences
Slice(data, a, b) == SubSeq(data, a + 1, IF b > Len(data) THEN Len(data) ELSE b)

----------------------------------------------------------------------------
(* encryption.py: key derivation *)

hkdf_extract(salt, input_key) == Sha256(salt \o input_key)

RECURSIVE ExpandLoop(_, _, _, _, _)
ExpandLoop(okm, previous, counter, info, length) ==
    IF Len(okm) * DigestSize < length
    THEN LET digest == Sha256(previous \o info \o <<Byte(counter)>>)
         IN  ExpandLoop(okm \o digest, digest, counter + 1, info, length)
    ELSE okm

\* hkdf_expand with prk fed to every digest
hkdf_expand_prk_fed(prk, info, length) ==
    SubSeq(ExpandLoop(<<>>, <<>>, 1, prk \o info, length), 1, length \div DigestSize)

\* okm[:length]; every block of okm is one 32-byte digest
hkdf_expand(prk, info, length) ==
    SubSeq(ExpandLoop(<<>>, <<>>, 1, info, length), 1, length \div DigestSize)

\* derive_session_keys with a salt that also takes in how many calls came before
derive_session_keys_call_salted(shared_secret, connection_id, timestamp) ==
    LET context == connection_id \o Text(":") \o <<Byte(timestamp)>>
        salt == Sha256(context \o <<Byte(Len(d_log))>>)
        info == Text("ClawChat v2.0 Session Keys") \o salt
        keys == hkdf_expand(hkdf_extract(salt, shared_secret), info, KeyMaterialLen)
    IN  [encryption_key |-> SubSeq(keys, 1, 1),
         mac_key |-> SubSeq(keys, 2, 2),
         iv_key |-> SubSeq(keys, 3, 3),
         next_key_seed |-> SubSeq(keys, 4, 4)]

derive_session_keys(shared_secret, connection_id, timestamp) ==
    LET context == connection_id \o Text(":") \o <<Byte(timestamp)>>
        salt == Sha256(context)
        info == Text("ClawChat v2.0 Session Keys")
        prk == hkdf_extract(salt, shared_secret)
        keys == hkdf_expand(prk, info, KeyMaterialLen)
    IN  [encryption_key |-> SubSeq(keys, 1, 1),
         mac_key |-> SubSeq(keys, 2, 2),
         iv_key |-> SubSeq(keys, 3, 3),
         next_key_seed |-> SubSeq(keys, 4, 4)]

\* self._session_keys = None
NoKeys == [encryption_key |-> <<>>, mac_key |-> <<>>, iv_key |-> <<>>,
           next_key_seed |-> <<>>]

----------------------------------------------------------------------------
(* AES-256-GCM of the cryptography library, as an ideal AEAD *)

CtBlock(key, nonce, i, p) ==
    [t |-> "aes-ctr", v |-> key \o nonce \o <<Byte(i), p>>]

TagBlock(key, nonce, aad, ct, j) ==
    [t |-> "gcm-tag", v |-> key \o nonce \o <<Byte(j), Byte(Len(aad))>> \o aad \o ct]

\* AESGCM(key).encrypt(nonce, plaintext, aad): ciphertext followed by the tag
AESGCM_encrypt(key, nonce, plaintext, aad) ==
    LET ct == [i \in 1..Len(plaintext) |-> CtBlock(key, nonce, i, plaintext[i])]
    IN  ct \o [j \in 1..TagLen |-> TagBlock(key, nonce, aad, ct, j)]

\* what counter mode yields for one ciphertext byte
CtrDecrypt(key, nonce, i, c) ==
    IF Len(c.v) > 0 /\ c = CtBlock(key, nonce, i, c.v[Len(c.v)])
    THEN c.v[Len(c.v)]
    ELSE [t |-> "aes-ctr-inv", v |-> key \o nonce \o <<Byte(i), c>>]

Ok(data) == [ok |-> TRUE, err |-> "", data |-> data]
Err(kind) == [ok |-> FALSE, err |-> kind, data |-> <<>>]

\* AESGCM(key).decrypt(nonce, data, aad): raises InvalidTag unless the tag verifies
AESGCM_decrypt(key, nonce, data, aad) ==
    IF Len(data) < TagLen THEN Err("InvalidTag")
    ELSE LET n == Len(data) - TagLen
             ct == SubSeq(data, 1, n)
             tag == SubSeq(data, n + 1, Len(data))
         IN  IF tag = [j \in 1..TagLen |-> TagBlock(key, nonce, aad, ct, j)]
             THEN Ok([i \in 1..n |-> CtrDecrypt(key, nonce, i, ct[i])])
             ELSE Err("InvalidTag")

----------------------------------------------------------------------------
(* encryption.py: CryptoManager packet mode *)

generate_nonce(id, size) == TokenBytes(id, size)

encrypt_packet(session_keys, nonce, plaintext, associated_data) ==
    IF session_keys = NoKeys THEN Err("CryptoError")
    ELSE Ok(nonce \o AESGCM_encrypt(session_keys.encryption_key, nonce,
                                    plaintext, associated_data))

\* decrypt_packet with the length test off by one (<= 28 instead of < 28)
decrypt_packet_off_by_one(session_keys, ciphertext, associated_data) ==
    IF session_keys = NoKeys THEN Err("CryptoError")
    ELSE IF Len(ciphertext) <= MinPacketLen THEN Err("DecryptionError")
    ELSE LET nonce == Slice(ciphertext, 0, NonceLen)
             encrypted_data == Slice(ciphertext, NonceLen, Len(ciphertext))
             r == AESGCM_decrypt(session_keys.encryption_key, nonce,
                                 encrypted_data, associated_data)
         IN  IF r.ok THEN r ELSE Err("AuthenticationError")

\* decrypt_packet that hands back the unauthenticated bytes when the tag fails
decrypt_packet_unauthenticated(session_keys, ciphertext, associated_data) ==
    IF session_keys = NoKeys THEN Err("CryptoError")
    ELSE IF Len(ciphertext) < MinPacketLen THEN Err("DecryptionError")
    ELSE LET nonce == Slice(ciphertext, 0, NonceLen)
             encrypted_data == Slice(ciphertext, NonceLen, Len(ciphertext))
             r == AESGCM_decrypt(session_keys.encryption_key, nonce,
                                 encrypted_data, associated_data)
         IN  IF r.ok THEN r
             ELSE Ok(Slice(encrypted_data, 0, Len(encrypted_data) - TagLen))

decrypt_packet(session_keys, ciphertext, associated_data) ==
    IF session_keys = NoKeys THEN Err("CryptoError")
    ELSE IF Len(ciphertext) < MinPacketLen THEN Err("DecryptionError")
    ELSE LET nonce == Slice(ciphertext, 0, NonceLen)
             encrypted_data == Slice(ciphertext, NonceLen, Len(ciphertext))
             r == AESGCM_decrypt(session_keys.encryption_key, nonce,
                                 encrypted_data, associated_data)
         IN  IF r.ok THEN r ELSE Err("AuthenticationError")

----------------------------------------------------------------------------
(* Inputs of the CryptoManager scenario *)

NonceIds == 1..MaxNonce
PtBytes == {Byte(1), Byte(2)}
RECURSIVE SeqsUpTo(_, _)
SeqsUpTo(S, n) ==
    IF n = 0 THEN {<<>>}
    ELSE LET shorter == SeqsUpTo(S, n - 1)
         IN  shorter \cup {Append(s, x) : s \in {q \in shorter : Len(q) = n - 1}, x \in S}
Plaintexts == SeqsUpTo(PtBytes, MaxPtLen)
\* associated_data: None (the default) or some bytes
AadValues == {<<>>, <<Byte(7)>>}

\* key sets as the program builds them: derived (derive_session_keys) or
\* decoded from a rotation message with a random seed (handle_rotation_message)
RandomKeySet(id) ==
    [encryption_key |-> Token32(<<"ek", id>>), mac_key |-> Token32(<<"mk", id>>),
     iv_key |-> Token32(<<"ik", id>>), next_key_seed |-> Token32(<<"seed", id>>)]
KeySets == {derive_session_keys(Token32(1), Text("conn-123"), 1), RandomKeySet(1)}

\* one bit of one byte changed in transit
FlipBit(b, bit) == [t |-> "flip", v |-> <<b, Byte(bit)>>]
Bits == 0..7

NoResult == [ok |-> FALSE, err |-> "none", data |-> <<>>]
\* no decrypt_packet call has returned since the packet last changed
NoCall == [op |-> "none", aad |-> <<>>, keys |-> NoKeys, out |-> NoResult]

----------------------------------------------------------------------------
(* CryptoManager scenario *)

\* what no CryptoManager scenario step touches
CFrame == UNCHANGED <<hvars, wvars, kvars, rvars, svars, dvars, vvars, gvars, ovars, fvars, pvars, nvars, tvars, avars, evars, mvars>>

CInit ==
    /\ c_keys = NoKeys
    /\ c_pt = <<>>
    /\ c_aad = <<>>
    /\ c_enc_keys = NoKeys
    /\ c_pkt = <<>>
    /\ c_wire = <<>>
    /\ c_flipped = <<>>
    /\ c_res = NoCall

\* CryptoManager.set_session_keys
CSetSessionKeys ==
    /\ CFrame
    /\ c_res.op # "decrypt"
    /\ \E k \in KeySets :
        /\ c_keys' = k
        /\ c_res' = NoCall
        /\ UNCHANGED <<c_pt, c_aad, c_enc_keys, c_pkt, c_wire, c_flipped>>

\* CryptoManager.encrypt_packet(plaintext, associated_data)
CEncryptPacket ==
    /\ CFrame
    /\ c_pkt = <<>>
    /\ \E p \in Plaintexts, a \in AadValues, id \in NonceIds :
        LET r == encrypt_packet(c_keys, generate_nonce(id, NonceLen), p, a)
        IN  /\ c_pt' = p
            /\ c_aad' = a
            /\ c_enc_keys' = c_keys
            /\ c_pkt' = r.data
            /\ c_wire' = r.data
            /\ c_flipped' = <<>>
            /\ c_res' = [op |-> "encrypt", aad |-> a, keys |-> c_keys,
                         out |-> [r EXCEPT !.data = <<>>]]
            /\ UNCHANGED c_keys

\* the network changes one bit of the packet
CFlip ==
    /\ CFrame
    /\ c_pkt # <<>>
    /\ c_flipped = <<>>
    /\ \E pos \in 1..Len(c_pkt), bit \in Bits :
        /\ c_wire' = [c_pkt EXCEPT ![pos] = FlipBit(@, bit)]
        /\ c_flipped' = <<pos, bit>>
    /\ c_res' = NoCall
    /\ UNCHANGED <<c_keys, c_pt, c_aad, c_enc_keys, c_pkt>>

\* CryptoManager.decrypt_packet(ciphertext, associated_data)
CDecryptPacket ==
    /\ CFrame
    /\ c_pkt # <<>>
    /\ \E a \in AadValues :
        c_res' = [op |-> "decrypt", aad |-> a, keys |-> c_keys,
                  out |-> decrypt_packet(c_keys, c_wire, a)]
    /\ UNCHANGED <<c_keys, c_pt, c_aad, c_enc_keys, c_pkt, c_wire, c_flipped>>

CNext == CSetSessionKeys \/ CEncryptPacket \/ CFlip \/ CDecryptPacket

----------------------------------------------------------------------------
(* udp_hole_punch.py: UDPHolePuncher *)

Peers == {1, 2}
Other(p) == 3 - p
\* the (ip, port) a peer's socket is reached at
AddrOf(p) == [ip |-> p, port |-> p]
NoAddr == [ip |-> 0, port |-> 0]
\* a host that is not one of the two peers: an address nothing is sent from
Stranger == Cardinality(Peers) + 1
\* what a caller may pass as expected_ip: None (0), the peer's address or another one
ExpectedIps(p) == {0, AddrOf(Other(p)).ip, AddrOf(Stranger).ip}
\* shared secrets a peer may hold; connection_id and timestamp are the same on both
Secrets == {Token32(<<"secret", 1>>), Token32(<<"secret", 2>>)}
PunchConnId == Text("test-conn")
PunchRandIds == 1..MaxNonce
MaxTime == Epoch + MaxStartDelay + PunchTimeout + RecvTimeout + 2

\* struct.unpack('B', b)[0]; None is -1
None == 0 - 1
ByteVal(b) ==
    IF \E n \in 0..255 : Byte(n) = b THEN CHOOSE n \in 0..255 : Byte(n) = b ELSE None

_create_punch_packet(session_keys, rid, nid, packet_type) ==
    LET nonce == TokenBytes(<<"punch", rid>>, PunchNonceLen)
        data == <<Byte(packet_type)>>
        encrypted == encrypt_packet(session_keys, generate_nonce(nid, NonceLen), data, <<>>)
    IN  IF encrypted.ok THEN Ok(nonce \o encrypted.data) ELSE encrypted

_parse_packet(session_keys, data) ==
    IF Len(data) < PunchNonceLen + 1 THEN None
    ELSE LET encrypted == Slice(data, PunchNonceLen, Len(data))
             r == decrypt_packet(session_keys, encrypted, <<>>)
         IN  IF ~r.ok THEN None
             ELSE IF Len(r.data) < 1 THEN None
             ELSE ByteVal(r.data[1])

\* socket.sendto: the datagram is queued on the destination's socket if one is bound
SendTo(inbox, from, to, data) ==
    IF to \in Peers /\ h_sock[to]
    THEN [inbox EXCEPT ![to] = Append(@, [data |-> data, addr |-> AddrOf(from)])]
    ELSE inbox

\* HolePunchResult(success=True, ...) with socket=None
PunchSuccess_no_socket(addr, latency, attempts) ==
    [returned |-> TRUE, success |-> TRUE, socket |-> FALSE, peer_address |-> addr,
     latency |-> latency, attempts |-> attempts, error_message |-> ""]

NoPunchResult ==
    [returned |-> FALSE, success |-> FALSE, socket |-> FALSE, peer_address |-> NoAddr,
     latency |-> 0, attempts |-> 0, error_message |-> ""]
PunchSuccess(addr, latency, attempts) ==
    [returned |-> TRUE, success |-> TRUE, socket |-> TRUE, peer_address |-> addr,
     latency |-> latency, attempts |-> attempts, error_message |-> ""]
PunchFailure(attempts, message) ==
    [returned |-> TRUE, success |-> FALSE, socket |-> FALSE, peer_address |-> NoAddr,
     latency |-> 0, attempts |-> attempts, error_message |-> message]

\* what no hole punching step touches
HFrame == UNCHANGED <<cvars, wvars, kvars, rvars, svars, dvars, vvars, gvars, ovars, fvars, pvars, nvars, tvars, avars, evars, mvars>>

HInit ==
    /\ h_now = Epoch
    /\ h_secret \in [Peers -> Secrets]
    /\ h_keys = [p \in Peers |-> derive_session_keys(h_secret[p], PunchConnId, Epoch)]
    /\ h_mode = [p \in Peers |-> "none"]
    /\ h_expected = [p \in Peers |-> 0]
    /\ h_state = [p \in Peers |-> "IDLE"]
    /\ h_trail = [p \in Peers |-> <<>>]
    /\ h_pc = [p \in Peers |-> "idle"]
    /\ h_sock = [p \in Peers |-> FALSE]
    /\ h_start = [p \in Peers |-> 0]
    /\ h_last_send = [p \in Peers |-> 0]
    /\ h_recv_at = [p \in Peers |-> 0]
    /\ h_attempts = [p \in Peers |-> 0]
    /\ h_inbox = [p \in Peers |-> <<>>]
    /\ h_result = [p \in Peers |-> NoPunchResult]

\* the source check of listen_for_punch left out
UnexpectedSource_never(p, addr) == FALSE

\* listen_for_punch(): "if expected_ip and addr[0] != expected_ip"
UnexpectedSource(p, addr) == h_expected[p] # 0 /\ addr.ip # h_expected[p]

\* punch() / listen_for_punch() up to the loop: PREPARING, _create_socket, PUNCHING
HStart(p) ==
    /\ HFrame
    /\ h_pc[p] = "idle"
    /\ h_now <= Epoch + MaxStartDelay
    /\ \E mode \in {"punch", "listen"}, e \in ExpectedIps(p) :
        /\ mode = "punch" => e = 0
        /\ h_mode' = [h_mode EXCEPT ![p] = mode]
        /\ h_expected' = [h_expected EXCEPT ![p] = e]
        /\ h_pc' = [h_pc EXCEPT ![p] = IF mode = "punch" THEN "send" ELSE "ltop"]
    /\ h_state' = [h_state EXCEPT ![p] = "PUNCHING"]
    /\ h_trail' = [h_trail EXCEPT ![p] = @ \o <<"PREPARING", "PUNCHING">>]
    /\ h_sock' = [h_sock EXCEPT ![p] = TRUE]
    /\ h_start' = [h_start EXCEPT ![p] = h_now]
    /\ h_last_send' = [h_last_send EXCEPT ![p] = 0]
    /\ h_attempts' = [h_attempts EXCEPT ![p] = 0]
    /\ UNCHANGED <<h_now, h_secret, h_keys, h_recv_at, h_inbox, h_result>>

\* the timeout exit without self.socket.close() and self.socket = None
HFail_socket_kept(p, message) ==
    /\ h_state' = [h_state EXCEPT ![p] = "FAILED"]
    /\ h_trail' = [h_trail EXCEPT ![p] = Append(@, "FAILED")]
    /\ h_sock' = h_sock
    /\ h_inbox' = h_inbox
    /\ h_result' = [h_result EXCEPT ![p] = PunchFailure(h_attempts[p], message)]
    /\ h_pc' = [h_pc EXCEPT ![p] = "done"]

\* the timeout exit of both loops: FAILED, socket closed and cleared
HFail(p, message) ==
    /\ h_state' = [h_state EXCEPT ![p] = "FAILED"]
    /\ h_trail' = [h_trail EXCEPT ![p] = Append(@, "FAILED")]
    /\ h_sock' = [h_sock EXCEPT ![p] = FALSE]
    /\ h_inbox' = [h_inbox EXCEPT ![p] = <<>>]
    /\ h_result' = [h_result EXCEPT ![p] = PunchFailure(h_attempts[p], message)]
    /\ h_pc' = [h_pc EXCEPT ![p] = "done"]

\* punch(): the loop test and the "send punch packet" half of one iteration
HPunchSend(p) ==
    /\ HFrame
    /\ h_pc[p] = "send"
    /\ IF h_now - h_start[p] < PunchTimeout
       THEN /\ h_attempts' = [h_attempts EXCEPT ![p] = @ + 1]
            /\ IF h_now - h_last_send[p] >= RetryInterval
               THEN \E rid \in PunchRandIds, nid \in PunchRandIds :
                       LET packet == _create_punch_packet(h_keys[p], rid, nid, PKT_PUNCH)
                       IN  IF packet.ok
                           THEN /\ h_inbox' = SendTo(h_inbox, p, Other(p), packet.data)
                                /\ h_last_send' = [h_last_send EXCEPT ![p] = h_now]
                           ELSE UNCHANGED <<h_inbox, h_last_send>>
               ELSE UNCHANGED <<h_inbox, h_last_send>>
            /\ h_pc' = [h_pc EXCEPT ![p] = "recv"]
            /\ UNCHANGED <<h_state, h_trail, h_sock, h_result>>
       ELSE /\ HFail(p, "Timeout")
            /\ UNCHANGED <<h_attempts, h_last_send>>
    /\ UNCHANGED <<h_now, h_secret, h_keys, h_mode, h_expected, h_start, h_recv_at>>

\* punch(): the "try to receive" half of one iteration, then time.sleep(0.01)
HPunchRecv(p) ==
    /\ HFrame
    /\ h_pc[p] = "recv"
    /\ IF h_inbox[p] = <<>>
       THEN /\ h_pc' = [h_pc EXCEPT ![p] = "sleep"]
            /\ UNCHANGED <<h_state, h_trail, h_inbox, h_result>>
       ELSE LET dgram == Head(h_inbox[p])
                rest == [h_inbox EXCEPT ![p] = Tail(@)]
                packet_type == _parse_packet(h_keys[p], dgram.data)
            IN  IF packet_type = PKT_PUNCH_ACK
                THEN /\ h_state' = [h_state EXCEPT ![p] = "CONNECTED"]
                     /\ h_trail' = [h_trail EXCEPT ![p] = Append(@, "CONNECTED")]
                     /\ h_result' = [h_result EXCEPT ![p] =
                            PunchSuccess(dgram.addr, h_now - h_start[p], h_attempts[p])]
                     /\ h_pc' = [h_pc EXCEPT ![p] = "done"]
                     /\ h_inbox' = rest
                ELSE IF packet_type = PKT_PUNCH
                THEN /\ \E rid \in PunchRandIds, nid \in PunchRandIds :
                          LET ack == _create_punch_packet(h_keys[p], rid, nid, PKT_PUNCH_ACK)
                          IN  h_inbox' = IF ack.ok
                                         THEN SendTo(rest, p, dgram.addr.ip, ack.data)
                                         ELSE rest
                     /\ h_pc' = [h_pc EXCEPT ![p] = "sleep"]
                     /\ UNCHANGED <<h_state, h_trail, h_result>>
                ELSE /\ h_inbox' = rest
                     /\ h_pc' = [h_pc EXCEPT ![p] = "sleep"]
                     /\ UNCHANGED <<h_state, h_trail, h_result>>
    /\ UNCHANGED <<h_now, h_secret, h_keys, h_mode, h_expected, h_sock, h_start,
                   h_last_send, h_recv_at, h_attempts>>

\* listen_for_punch(): the loop test, then recvfrom starts to block
HListenTop(p) ==
    /\ HFrame
    /\ h_pc[p] = "ltop"
    /\ IF h_now - h_start[p] < PunchTimeout
       THEN /\ h_attempts' = [h_attempts EXCEPT ![p] = @ + 1]
            /\ h_recv_at' = [h_recv_at EXCEPT ![p] = h_now]
            /\ h_pc' = [h_pc EXCEPT ![p] = "lrecv"]
            /\ UNCHANGED <<h_state, h_trail, h_sock, h_inbox, h_result>>
       ELSE /\ HFail(p, "Listen timeout")
            /\ UNCHANGED <<h_attempts, h_recv_at>>
    /\ UNCHANGED <<h_now, h_secret, h_keys, h_mode, h_expected, h_start, h_last_send>>

\* listen_for_punch(): recvfrom returns a datagram
HListenRecv(p) ==
    /\ HFrame
    /\ h_pc[p] = "lrecv"
    /\ h_inbox[p] # <<>>
    /\ LET dgram == Head(h_inbox[p])
           rest == [h_inbox EXCEPT ![p] = Tail(@)]
           packet_type == _parse_packet(h_keys[p], dgram.data)
       IN  IF UnexpectedSource(p, dgram.addr)
           THEN /\ h_inbox' = rest
                /\ h_pc' = [h_pc EXCEPT ![p] = "ltop"]
                /\ UNCHANGED <<h_state, h_trail, h_result>>
           ELSE IF packet_type = PKT_PUNCH
           THEN \E rid \in PunchRandIds, nid \in PunchRandIds :
                   LET ack == _create_punch_packet(h_keys[p], rid, nid, PKT_PUNCH_ACK)
                   IN  IF ack.ok
                       THEN /\ h_inbox' = SendTo(rest, p, dgram.addr.ip, ack.data)
                            /\ h_state' = [h_state EXCEPT ![p] = "CONNECTED"]
                            /\ h_trail' = [h_trail EXCEPT ![p] = Append(@, "CONNECTED")]
                            /\ h_result' = [h_result EXCEPT ![p] =
                                   PunchSuccess(dgram.addr, h_now - h_start[p], h_attempts[p])]
                            /\ h_pc' = [h_pc EXCEPT ![p] = "done"]
                       ELSE /\ h_inbox' = rest
                            /\ h_pc' = [h_pc EXCEPT ![p] = "ltop"]
                            /\ UNCHANGED <<h_state, h_trail, h_result>>
           ELSE /\ h_inbox' = rest
                /\ h_pc' = [h_pc EXCEPT ![p] = "ltop"]
                /\ UNCHANGED <<h_state, h_trail, h_result>>
    /\ UNCHANGED <<h_now, h_secret, h_keys, h_mode, h_expected, h_sock, h_start,
                   h_last_send, h_recv_at, h_attempts>>

\* listen_for_punch(): recvfrom raises socket.timeout after 1.0 s without a datagram
HListenRecvTimeout(p) ==
    /\ HFrame
    /\ h_pc[p] = "lrecv"
    /\ h_inbox[p] = <<>>
    /\ h_now - h_recv_at[p] >= RecvTimeout
    /\ h_pc' = [h_pc EXCEPT ![p] = "ltop"]
    /\ UNCHANGED <<h_now, h_secret, h_keys, h_mode, h_expected, h_state, h_trail, h_sock, h_start,
                   h_last_send, h_recv_at, h_attempts, h_inbox, h_result>>

\* 10 ms pass: every loop has finished what it does at this instant
HTick ==
    /\ HFrame
    /\ h_now < MaxTime
    /\ \A p \in Peers :
        /\ h_pc[p] \notin {"send", "recv", "ltop"}
        /\ h_pc[p] = "lrecv" => (h_inbox[p] = <<>> /\ h_now - h_recv_at[p] < RecvTimeout)
    /\ \E p \in Peers :
        \/ h_pc[p] \in {"sleep", "lrecv"}
        \/ (h_pc[p] = "idle" /\ h_now < Epoch + MaxStartDelay)
    /\ h_now' = h_now + SleepStep
    /\ h_pc' = [p \in Peers |-> IF h_pc[p] = "sleep" THEN "send" ELSE h_pc[p]]
    /\ UNCHANGED <<h_secret, h_keys, h_mode, h_expected, h_state, h_trail, h_sock, h_start,
                   h_last_send, h_recv_at, h_attempts, h_inbox, h_result>>

\* UDP: a datagram sent to p's socket is lost before p reads it
HLose(p) ==
    /\ HFrame
    /\ \E i \in 1..Len(h_inbox[p]) :
         h_inbox' = [h_inbox EXCEPT ![p] = SubSeq(@, 1, i - 1) \o SubSeq(@, i + 1, Len(@))]
    /\ UNCHANGED <<h_now, h_secret, h_keys, h_mode, h_expected, h_state, h_trail, h_pc,
                   h_sock, h_start, h_last_send, h_recv_at, h_attempts, h_result>>

\* both calls over a network that may lose datagrams
HLossyNext ==
    \/ \E p \in Peers : HStart(p)
    \/ \E p \in Peers : HPunchSend(p)
    \/ \E p \in Peers : HPunchRecv(p)
    \/ \E p \in Peers : HListenTop(p)
    \/ \E p \in Peers : HListenRecv(p)
    \/ \E p \in Peers : HListenRecvTimeout(p)
    \/ \E p \in Peers : HLose(p)
    \/ HTick

HNext ==
    \/ \E p \in Peers : HStart(p)
    \/ \E p \in Peers : HPunchSend(p)
    \/ \E p \in Peers : HPunchRecv(p)
    \/ \E p \in Peers : HListenTop(p)
    \/ \E p \in Peers : HListenRecv(p)
    \/ \E p \in Peers : HListenRecvTimeout(p)
    \/ HTick

----------------------------------------------------------------------------
(* messages.py: Message frames *)

\* struct.pack('!B', n), struct.pack('!d', x), struct.pack('!I', n)
pack_B(n) == <<Byte(n)>>
pack_d(x) == [i \in 1..8 |-> Atom(ToString(<<"f64", x, i>>))]
pack_I(n) == <<Byte((n \div 16777216) % 256), Byte((n \div 65536) % 256),
               Byte((n \div 256) % 256), Byte(n % 256)>>
unpack_I(b) ==
    ((ByteVal(b[1]) * 256 + ByteVal(b[2])) * 256 + ByteVal(b[3])) * 256 + ByteVal(b[4])

\* secrets.token_hex(n): 2n hexadecimal characters
token_hex(id, n) == [i \in 1..(2 * n) |-> Atom(ToString(<<"hex", id, i>>))]

\* the payload dictionaries the server loop and its peer exchange, and the
\* length of json.dumps of each
Payloads == {"{\"status\": \"ok\"}", "{\"ping\": true}", "{\"pong\": true}"}
JsonLen(payload) == IF payload = "{\"status\": \"ok\"}" THEN 16 ELSE 14
json_dumps(payload) == [i \in 1..JsonLen(payload) |-> Atom(ToString(<<"json", payload, i>>))]
\* the JSON text of a dictionary that is carried as one block
IsJsonBlock(b) == Len(b) = 1 /\ b[1].t = "json"
json_loads(b) ==
    IF IsJsonBlock(b) THEN b[1].v[1]
    ELSE IF \E q \in Payloads : json_dumps(q) = b
    THEN CHOOSE q \in Payloads : json_dumps(q) = b
    ELSE "error"

MessageTypes == {MessageType_PUNCH, MessageType_PUNCH_ACK, MessageType_KEEPALIVE}
MessageTimes == {Epoch, Epoch + 1}
\* the members of MessageType and the timestamps that frames of the model carry
FrameTypes ==
    MessageTypes \cup {MessageType_KEY_ROTATION, MessageType_COMPROMISED,
                       MessageType_COMPROMISED_ACK}
FrameTimes ==
    MessageTimes \cup {Epoch + a + b * (GRACE_PERIOD + 1) + c * ROTATION_INTERVAL :
                           a \in 0..MaxRotTicks, b \in 0..MaxRotTicks, c \in 0..MaxRotTicks}

\* Message.__post_init__ with the clock and the random source made explicit
Message(msg_type, payload, timestamp, id) ==
    [msg_type |-> msg_type, payload |-> payload, timestamp |-> timestamp,
     message_id |-> token_hex(id, MessageIdBytes)]
NoMessage == [msg_type |-> 0, payload |-> "", timestamp |-> 0, message_id |-> <<>>]

\* Message.to_bytes: [type:1][timestamp:8][id_len:1][id][payload_len:4][payload]
frame(msg_type, timestamp, msg_id_bytes, payload_json) ==
    LET header == pack_B(msg_type) \o pack_d(timestamp) \o pack_B(Len(msg_id_bytes))
        payload_header == pack_I(Len(payload_json))
    IN  header \o msg_id_bytes \o payload_header \o payload_json
\* to_bytes that writes at most 16 bytes of the id
to_bytes_id_cut(msg) ==
    frame(msg.msg_type, msg.timestamp, Slice(msg.message_id, 0, 16),
          json_dumps(msg.payload))

to_bytes(msg) ==
    frame(msg.msg_type, msg.timestamp, msg.message_id, json_dumps(msg.payload))

\* Message.from_bytes; ok is FALSE where the code raises
from_bytes(data) ==
    IF Len(data) < 10 \/ ByteVal(data[1]) = None \/ ByteVal(data[10]) = None
       \/ ~ \E x \in FrameTimes : pack_d(x) = Slice(data, 1, 9)
    THEN [ok |-> FALSE, msg |-> NoMessage]
    ELSE LET msg_type == ByteVal(data[1])
             timestamp == CHOOSE x \in FrameTimes : pack_d(x) = Slice(data, 1, 9)
             id_len == ByteVal(data[10])
         IN  IF Len(data) < 14 + id_len
                \/ \E i \in 1..4 : ByteVal(data[10 + id_len + i]) = None
             THEN [ok |-> FALSE, msg |-> NoMessage]
             ELSE LET msg_id == Slice(data, 10, 10 + id_len)
                      payload_len == unpack_I(Slice(data, 10 + id_len, 14 + id_len))
                      payload_json == Slice(data, 14 + id_len, 14 + id_len + payload_len)
                      payload == json_loads(payload_json)
                  IN  IF (~IsJsonBlock(payload_json) /\ payload = "error")
                         \/ msg_type \notin FrameTypes
                      THEN [ok |-> FALSE, msg |-> NoMessage]
                      ELSE [ok |-> TRUE,
                            msg |-> [msg_type |-> msg_type, payload |-> payload,
                                     timestamp |-> timestamp, message_id |-> msg_id]]

----------------------------------------------------------------------------
(* server/main.py: the server loop facing the client's puncher and sender *)

\* both ends hold the key set derived from the same triple
WKeys == derive_session_keys(Token32(<<"secret", 1>>), PunchConnId, 1)
ClientAddr == AddrOf(1)
NoHandled == [handled |-> FALSE, data |-> <<>>, accepted |-> FALSE, msg_type |-> 0]
NoParsed == [handled |-> FALSE, data |-> <<>>, packet_type |-> None]

\* the datagram is a punch packet of UDPHolePuncher._create_punch_packet
IsPunchPacket(data) ==
    \E rid \in PunchRandIds, nid \in NonceIds, t \in {PKT_PUNCH, PKT_PUNCH_ACK} :
        data = _create_punch_packet(WKeys, rid, nid, t).data

\* what no server loop step touches
WFrame == UNCHANGED <<cvars, hvars, kvars, rvars, svars, dvars, vvars, gvars, ovars, fvars, pvars, nvars, tvars, avars, evars, mvars>>

WInit ==
    /\ w_to_server = <<>>
    /\ w_to_client = <<>>
    /\ w_peer_address = NoAddr
    /\ w_received = 0
    /\ w_sends = 0
    /\ w_srv = NoHandled
    /\ w_cli = NoParsed
    /\ w_running = TRUE

\* UDPHolePuncher.punch, send half of one loop round: a PUNCH to the server
WPunchSend ==
    /\ WFrame
    /\ w_sends < MaxSends
    /\ \E rid \in PunchRandIds, nid \in NonceIds :
         w_to_server' = Append(w_to_server,
             [data |-> _create_punch_packet(WKeys, rid, nid, PKT_PUNCH).data,
              addr |-> ClientAddr])
    /\ w_sends' = w_sends + 1
    /\ UNCHANGED <<w_to_client, w_peer_address, w_received, w_srv, w_cli, w_running>>

\* ClawChatClient._send_message: an encrypted Message to the server
WSendMessage ==
    /\ WFrame
    /\ w_sends < MaxSends
    /\ \E t \in {MessageType_PUNCH, MessageType_KEEPALIVE}, ts \in MessageTimes,
          nid \in NonceIds :
         LET msg == Message(t, IF t = MessageType_PUNCH THEN "{\"status\": \"ok\"}"
                                ELSE "{\"ping\": true}", ts, <<"client", w_sends>>)
             plaintext == to_bytes(msg)
             encrypted == encrypt_packet(WKeys, generate_nonce(nid, NonceLen), plaintext, <<>>)
         IN  w_to_server' = Append(w_to_server, [data |-> encrypted.data, addr |-> ClientAddr])
    /\ w_sends' = w_sends + 1
    /\ UNCHANGED <<w_to_client, w_peer_address, w_received, w_srv, w_cli, w_running>>

\* a byte no member of MessageType has
NoSuchType == 4
\* plaintexts that are no Message frame: the puncher's one-byte payload, a frame
\* of an unknown type, and a frame whose payload is not JSON
StrayPlaintexts ==
    {pack_B(PKT_PUNCH),
     frame(NoSuchType, Epoch, token_hex(<<"stray", 1>>, MessageIdBytes),
           json_dumps("{\"ping\": true}")),
     frame(MessageType_KEEPALIVE, Epoch, token_hex(<<"stray", 2>>, MessageIdBytes),
           pack_B(0))}
\* what recvfrom may hand the loop besides the client's messages: a datagram too
\* short to decrypt, and the stray plaintexts encrypted under the session keys
StrayDatagrams ==
    {pack_B(0)} \cup
    {encrypt_packet(WKeys, generate_nonce(nid, NonceLen), plaintext, <<>>).data :
         nid \in NonceIds, plaintext \in StrayPlaintexts}

\* socket.recvfrom: such a datagram arrives at the server's socket
WStraySend ==
    /\ WFrame
    /\ w_sends < MaxSends
    /\ \E data \in StrayDatagrams :
         w_to_server' = Append(w_to_server, [data |-> data, addr |-> ClientAddr])
    /\ w_sends' = w_sends + 1
    /\ UNCHANGED <<w_to_client, w_peer_address, w_received, w_srv, w_cli, w_running>>

\* ClawChatServer.stop, on KeyboardInterrupt
WStop ==
    /\ WFrame
    /\ w_running
    /\ w_running' = FALSE
    /\ UNCHANGED <<w_to_server, w_to_client, w_peer_address, w_received, w_sends, w_srv,
                   w_cli>>

\* ClawChatServer._send_message as called from a handler, peer_address already set
server_send_message(to_client, peer_address, msg_type, payload, ts, nid) ==
    IF peer_address = NoAddr THEN to_client
    ELSE LET msg == Message(msg_type, payload, ts, <<"server", w_received>>)
             plaintext == to_bytes(msg)
             encrypted == encrypt_packet(WKeys, generate_nonce(nid, NonceLen), plaintext, <<>>)
         IN  Append(to_client, [data |-> encrypted.data, addr |-> peer_address])

\* a datagram is given up on: decrypt_packet raised and _handle_packet returned,
\* or Message.from_bytes raised and _process_loop caught it ("Receive error")
WDrop_counted(d) ==
    /\ w_srv' = [handled |-> TRUE, data |-> d.data, accepted |-> FALSE, msg_type |-> 0]
    /\ w_received' = w_received + 1
    /\ UNCHANGED <<w_to_client, w_peer_address>>
WDrop(d) ==
    /\ w_srv' = [handled |-> TRUE, data |-> d.data, accepted |-> FALSE, msg_type |-> 0]
    /\ UNCHANGED <<w_to_client, w_peer_address, w_received>>

\* ClawChatServer._process_loop: recvfrom and _handle_packet
WServerHandle ==
    /\ WFrame
    /\ w_running
    /\ w_to_server # <<>>
    /\ LET d == Head(w_to_server)
           r == decrypt_packet(WKeys, d.data, <<>>)
           parsed == from_bytes(r.data)
       IN  /\ w_to_server' = Tail(w_to_server)
           /\ IF ~r.ok
              THEN WDrop(d)
              ELSE IF ~parsed.ok
              THEN WDrop(d)
              ELSE LET peer == IF w_peer_address = NoAddr THEN d.addr ELSE w_peer_address
                   IN  /\ w_received' = w_received + 1
                       /\ w_peer_address' = peer
                       /\ w_srv' = [handled |-> TRUE, data |-> d.data, accepted |-> TRUE,
                                    msg_type |-> parsed.msg.msg_type]
                       /\ \E ts \in MessageTimes, nid \in NonceIds :
                            w_to_client' =
                              IF parsed.msg.msg_type = MessageType_PUNCH
                              THEN server_send_message(w_to_client, peer,
                                       MessageType_PUNCH_ACK, "{\"status\": \"ok\"}", ts, nid)
                              ELSE IF parsed.msg.msg_type = MessageType_KEEPALIVE
                              THEN server_send_message(w_to_client, peer,
                                       MessageType_KEEPALIVE, "{\"pong\": true}", ts, nid)
                              ELSE w_to_client
    /\ UNCHANGED <<w_sends, w_cli, w_running>>

\* UDPHolePuncher.punch, receive half of one loop round on the client's socket
WPuncherRecv ==
    /\ WFrame
    /\ w_to_client # <<>>
    /\ LET d == Head(w_to_client)
       IN  /\ w_to_client' = Tail(w_to_client)
           /\ w_cli' = [handled |-> TRUE, data |-> d.data,
                        packet_type |-> _parse_packet(WKeys, d.data)]
    /\ UNCHANGED <<w_to_server, w_peer_address, w_received, w_sends, w_srv, w_running>>

WNext ==
    \/ WPunchSend
    \/ WSendMessage
    \/ WServerHandle
    \/ WPuncherRecv
    \/ WStraySend
    \/ WStop

----------------------------------------------------------------------------
(* compromised.py: CompromisedProtocolHandler, with the glue of client and server *)

Client == 1
Server == 2
KPeers == {Client, Server}
is_server(p) == p = Server

SIGNAL_STRING == "CLAWCHAT_COMPROMISED_V2"
ACK_STRING == "CLAWCHAT_COMPROMISED_ACK_V2"
Reasons == {"user_initiated", "suspected_breach"}

\* both handlers are built with the same connection_id and mac_key
KConnId == Text("test-conn-123")
KKeys == derive_session_keys(Token32(<<"secret", 1>>), KConnId, 1)
\* a mac_key the handlers never held
ForgerKey == Token32(<<"forger", 1>>)

Abs(x) == IF x < 0 THEN 0 - x ELSE x

\* hashlib.blake2b(key=mac_key, digest_size=32) over signal_data, as hexdigest
_sign_signal(mac_key, signal_data) ==
    <<[t |-> "hex", v |-> <<[t |-> "blake2b", v |-> mac_key \o Text("|") \o signal_data]>>]>>
_verify_signal(mac_key, signal_data, signature) ==
    _sign_signal(mac_key, signal_data) = signature

\* f"{tag}:{connection_id}:{timestamp}"
signal_data_of(tag, connection_id, timestamp) ==
    Text(tag) \o Text(":") \o connection_id \o Text(":") \o <<Byte(timestamp)>>

create_compromised_signal(connection_id, mac_key, reason, now) ==
    [type |-> "compromised", version |-> "2.0", signal |-> SIGNAL_STRING,
     timestamp |-> now, connection_id |-> connection_id, reason |-> reason,
     action |-> "", new_file_ready |-> FALSE,
     signature |-> _sign_signal(mac_key, signal_data_of(SIGNAL_STRING, connection_id, now))]

create_ack_signal(connection_id, mac_key, new_file_ready, now) ==
    [type |-> "compromised_ack", version |-> "2.0", signal |-> ACK_STRING,
     timestamp |-> now, connection_id |-> connection_id, reason |-> "",
     action |-> "keys_deleted", new_file_ready |-> new_file_ready,
     signature |-> _sign_signal(mac_key, signal_data_of(ACK_STRING, connection_id, now))]

\* handle_compromised_signal without the replay window check
handle_compromised_signal_no_window(connection_id, mac_key, message, now) ==
    /\ message.type = "compromised"
    /\ message.version = "2.0"
    /\ message.signal = SIGNAL_STRING
    /\ message.connection_id = connection_id
    /\ message.timestamp # None
    /\ message.signature # <<>>
    /\ _verify_signal(mac_key, signal_data_of(SIGNAL_STRING, connection_id, message.timestamp),
                      message.signature)

\* handle_compromised_signal: TRUE when the signal is accepted
handle_compromised_signal(connection_id, mac_key, message, now) ==
    /\ message.type = "compromised"
    /\ message.version = "2.0"
    /\ message.signal = SIGNAL_STRING
    /\ message.connection_id = connection_id
    /\ message.timestamp # None
    /\ message.signature # <<>>
    /\ _verify_signal(mac_key, signal_data_of(SIGNAL_STRING, connection_id, message.timestamp),
                      message.signature)
    /\ ~(Abs(now - message.timestamp) > ReplayWindow)

\* handle_ack_signal: TRUE when the ACK is accepted
handle_ack_signal(connection_id, mac_key, message) ==
    /\ message.type = "compromised_ack"
    /\ message.version = "2.0"
    /\ message.signal = ACK_STRING
    /\ message.connection_id = connection_id
    /\ _verify_signal(mac_key, signal_data_of(ACK_STRING, connection_id, message.timestamp),
                      message.signature)

\* _destroy_keys: the handler state it leaves, and the mac_key it installs
destroyed_state(p) == IF is_server(p) THEN "WAITING_FOR_NEW_KEYS" ELSE "KEYS_DESTROYED"
destroyed_mac(p, n) == Token32(<<"destroyed", p, n>>)

\* handle_compromised_signal with self.state = SIGNAL_RECEIVED moved ahead of the checks
after_compromised_signal_state_first(p, state, mac_key, accepted, now) ==
    IF accepted
    THEN [state |-> destroyed_state(p), mac_key |-> destroyed_mac(p, now),
          keys_destroyed |-> TRUE, new_file |-> is_server(p)]
    ELSE [state |-> "SIGNAL_RECEIVED", mac_key |-> mac_key,
          keys_destroyed |-> FALSE, new_file |-> FALSE]

\* what handle_compromised_signal leaves behind: on acceptance SIGNAL_RECEIVED and
\* then _destroy_keys with its callbacks; on any `return False` nothing at all
after_compromised_signal(p, state, mac_key, accepted, now) ==
    IF accepted
    THEN [state |-> destroyed_state(p), mac_key |-> destroyed_mac(p, now),
          keys_destroyed |-> TRUE, new_file |-> is_server(p)]
    ELSE [state |-> state, mac_key |-> mac_key,
          keys_destroyed |-> FALSE, new_file |-> FALSE]

\* _send_message of either side: the Message frame of a signal, encrypted with
\* the CryptoManager's session keys
send_signal_message(session_keys, msg_type, message, now, nid) ==
    encrypt_packet(session_keys, generate_nonce(nid, NonceLen),
                   frame(msg_type, now, token_hex(<<"signal", now>>, MessageIdBytes),
                         <<[t |-> "json", v |-> <<message>>]>>), <<>>)

\* the clock moves to the edge of the replay window or just past it
NoSignal ==
    [type |-> "", version |-> "", signal |-> "", timestamp |-> 0, connection_id |-> <<>>,
     reason |-> "", action |-> "", new_file_ready |-> FALSE, signature |-> <<>>]
NoAckCall == [handled |-> FALSE, message |-> NoSignal, state |-> "", accepted |-> FALSE]

TickSteps == {ReplayWindow, ReplayWindow + 1}

\* what no Compromised Protocol step touches
KFrame == UNCHANGED <<cvars, hvars, wvars, rvars, svars, dvars, vvars, gvars, ovars, fvars, pvars, nvars, tvars, avars, evars, mvars>>

\* both handlers as constructed, with the given signals on the network
KStart(net) ==
    /\ k_now = Epoch
    /\ k_ticks = 0
    /\ k_state = [p \in KPeers |-> "NORMAL"]
    /\ k_mac = [p \in KPeers |-> KKeys.mac_key]
    /\ k_running = [p \in KPeers |-> TRUE]
    /\ k_crypto = [p \in KPeers |-> KKeys]
    /\ k_net = net
    /\ k_sig_calls = {}
    /\ k_ack_call = NoAckCall
    /\ k_sent = {}
    /\ k_new_file = FALSE

KInit == KStart({})

\* a signal of the client in which one thing is wrong, or nothing
Defects == {"none", "type", "version", "signal", "connection_id", "signature",
            "no_timestamp", "no_signature", "reason"}
Defective(defect, reason) ==
    LET good == create_compromised_signal(KConnId, KKeys.mac_key, reason, Epoch)
    IN  CASE defect = "type" -> [good EXCEPT !.type = "compromised_ack"]
          [] defect = "version" -> [good EXCEPT !.version = "1.0"]
          [] defect = "signal" -> [good EXCEPT !.signal = ACK_STRING]
          [] defect = "connection_id" -> [good EXCEPT !.connection_id = Text("other-conn")]
          [] defect = "signature" ->
                 create_compromised_signal(KConnId, ForgerKey, reason, Epoch)
          [] defect = "no_timestamp" -> [good EXCEPT !.timestamp = None]
          [] defect = "no_signature" -> [good EXCEPT !.signature = <<>>]
          [] defect = "reason" -> [good EXCEPT !.reason = "rewritten"]
          [] OTHER -> good

\* the server's handler meets signals of every kind, one or two at a time
KStartDefective ==
    \E d1 \in Defects, d2 \in Defects, reason \in Reasons :
        KStart({Defective(d1, reason), Defective(d2, reason)})

\* ClawChatClient._trigger_compromised: create_compromised_signal and _send_message
KTrigger ==
    /\ KFrame
    /\ k_running[Client]
    /\ Cardinality(k_net) < MaxSignals
    /\ \E reason \in Reasons, nid \in NonceIds :
         LET signal == create_compromised_signal(KConnId, k_mac[Client], reason, k_now)
             encrypted == send_signal_message(k_crypto[Client], MessageType_COMPROMISED,
                                              signal, k_now, nid)
         IN  /\ k_net' = k_net \cup {signal}
             /\ k_sent' = k_sent \cup {[peer |-> Client, state |-> "SIGNAL_SENT",
                                        ok |-> encrypted.ok, keys |-> k_crypto[Client]]}
    /\ k_state' = [k_state EXCEPT ![Client] = "SIGNAL_SENT"]
    /\ UNCHANGED <<k_now, k_ticks, k_mac, k_running, k_crypto, k_sig_calls, k_ack_call,
                   k_new_file>>

\* a signal signed under a mac_key that is not the handlers' reaches the network
KForge ==
    /\ KFrame
    /\ Cardinality(k_net) < MaxSignals
    /\ k_net' = k_net \cup
           {create_compromised_signal(KConnId, ForgerKey, "suspected_breach", k_now)}
    /\ UNCHANGED <<k_now, k_ticks, k_state, k_mac, k_running, k_crypto, k_sig_calls,
                   k_ack_call, k_sent, k_new_file>>

\* ClawChatServer._handle_compromised on a COMPROMISED message: on acceptance
\* _destroy_keys runs with both callbacks, then the ACK is created and sent
KServerHandle ==
    /\ KFrame
    /\ k_running[Server]
    /\ Cardinality(k_sig_calls) < MaxCalls
    /\ \E message \in k_net, nid \in NonceIds :
         LET accepted == handle_compromised_signal(KConnId, k_mac[Server], message, k_now)
             after == after_compromised_signal(Server, k_state[Server], k_mac[Server],
                                               accepted, k_now)
             new_mac == after.mac_key
             ack == create_ack_signal(KConnId, new_mac, TRUE, k_now)
             encrypted == send_signal_message(k_crypto[Server], MessageType_COMPROMISED_ACK,
                                              ack, k_now, nid)
         IN  /\ k_sig_calls' = k_sig_calls \cup
                    {[message |-> message, now |-> k_now, mac_key |-> k_mac[Server],
                      accepted |-> accepted]}
             /\ k_mac' = [k_mac EXCEPT ![Server] = after.mac_key]
             /\ k_state' = [k_state EXCEPT ![Server] = after.state]
             /\ k_running' = [k_running EXCEPT ![Server] = @ /\ ~after.keys_destroyed]
             /\ k_new_file' = (k_new_file \/ after.new_file)
             /\ IF accepted
                THEN /\ k_net' = k_net \cup {ack}
                     /\ k_sent' = k_sent \cup {[peer |-> Server, state |-> destroyed_state(Server),
                                               ok |-> encrypted.ok, keys |-> k_crypto[Server]]}
                ELSE UNCHANGED <<k_net, k_sent>>
    /\ UNCHANGED <<k_now, k_ticks, k_crypto, k_ack_call>>

\* ClawChatClient._handle_packet on a COMPROMISED_ACK message: handle_ack_signal,
\* on acceptance _destroy_keys with the client's callback
KClientHandle ==
    /\ KFrame
    /\ k_running[Client]
    /\ \E message \in k_net :
         LET accepted == handle_ack_signal(KConnId, k_mac[Client], message)
         IN  /\ k_ack_call' = [handled |-> TRUE, message |-> message,
                                state |-> k_state[Client], accepted |-> accepted]
             /\ IF accepted
                THEN /\ k_mac' = [k_mac EXCEPT ![Client] = destroyed_mac(Client, k_now)]
                     /\ k_state' = [k_state EXCEPT ![Client] = destroyed_state(Client)]
                     /\ k_running' = [k_running EXCEPT ![Client] = FALSE]
                ELSE UNCHANGED <<k_mac, k_state, k_running>>
    /\ UNCHANGED <<k_now, k_ticks, k_crypto, k_net, k_sig_calls, k_sent, k_new_file>>

\* time passes
KTick ==
    /\ KFrame
    /\ k_ticks < MaxTicks
    /\ \E d \in TickSteps : k_now' = k_now + d
    /\ k_ticks' = k_ticks + 1
    /\ UNCHANGED <<k_state, k_mac, k_running, k_crypto, k_net, k_sig_calls, k_ack_call,
                   k_sent, k_new_file>>

KNext ==
    \/ KTrigger
    \/ KForge
    \/ KServerHandle
    \/ KClientHandle
    \/ KTick

\* the server's handler alone with what is on the network
KRejectNext == KServerHandle \/ KTick

----------------------------------------------------------------------------
(* key_rotation.py: KeyRotator in the server loop *)

RSecret == Token32(<<"secret", 1>>)
\* the connection_id of the server's rotator, f"{server_id}-{int(time.time())}"
RConnId == Text("clawchat-server") \o Text("-") \o <<Byte(Epoch)>>

base64_encode(b) == <<[t |-> "b64", v |-> b]>>

\* KeyRotator.__init__
KeyRotator(shared_secret, connection_id, now) ==
    [current_keys |-> derive_session_keys(shared_secret, connection_id, now),
     next_keys |-> NoKeys,
     rotation_due |-> now + ROTATION_INTERVAL,
     grace_period_end |-> 0]

check_rotation_needed(state, now) == now >= state.rotation_due

\* KeyRotator.prepare_next_keys: the rotator state with next_keys staged
prepare_next_keys(state, connection_id, now) ==
    LET seed == state.current_keys.next_key_seed
        new_connection_id == connection_id \o Text("-") \o <<Byte(now)>>
    IN  [state EXCEPT !.next_keys = derive_session_keys(seed, new_connection_id, now)]

\* the staging step at the head of create_rotation_message and perform_rotation
staged(state, connection_id, now) ==
    IF state.next_keys = NoKeys THEN prepare_next_keys(state, connection_id, now) ELSE state

\* KeyRotator.create_rotation_message, on a state with next_keys staged
create_rotation_message(state, connection_id, now) ==
    [type |-> "key_rotation", version |-> "2.0", timestamp |-> now,
     connection_id |-> connection_id,
     next_encryption_key |-> base64_encode(state.next_keys.encryption_key),
     next_mac_key |-> base64_encode(state.next_keys.mac_key),
     next_iv_key |-> base64_encode(state.next_keys.iv_key),
     rotation_time |-> state.rotation_due]

\* KeyRotator.perform_rotation: the rotator state and the history it leaves
perform_rotation(state, connection_id, now) ==
    LET st == staged(state, connection_id, now)
    IN  [st EXCEPT !.current_keys = st.next_keys,
                   !.next_keys = NoKeys,
                   !.rotation_due = now + ROTATION_INTERVAL,
                   !.grace_period_end = now + GRACE_PERIOD]
rotated_history(history, state, now) ==
    LET h == Append(history, [timestamp |-> now, keys |-> state.current_keys])
    IN  IF Len(h) > HistoryLimit THEN Tail(h) ELSE h

RotSteps == {1, GRACE_PERIOD + 1, ROTATION_INTERVAL}
NoPacketResult ==
    [handled |-> FALSE, sent_at |-> 0, at |-> 0, ok |-> FALSE, keys |-> NoKeys,
     rotations |-> 0]

\* what no key rotation step touches
RFrame == UNCHANGED <<cvars, hvars, wvars, kvars, svars, dvars, vvars, gvars, ovars, fvars, pvars, nvars, tvars, avars, evars, mvars>>

RInit ==
    /\ r_now = Epoch
    /\ r_ticks = 0
    /\ r_rot = KeyRotator(RSecret, RConnId, Epoch)
    /\ r_history = <<>>
    /\ r_crypto = [p \in KPeers |-> derive_session_keys(RSecret, RConnId, Epoch)]
    /\ r_peer = FALSE
    /\ r_wire = {}
    /\ r_sends = 0
    /\ r_notice = {}
    /\ r_seen = 0
    /\ r_res = NoPacketResult
    /\ r_cres = NoPacketResult
    /\ r_pc = "loop"

\* a datagram on its way is kept as the encrypt_packet call that made it: the
\* session keys, the nonce drawn and the plaintext frame, with the time and the
\* number of rotations the server had performed when it was sent
Datagram(session_keys, nid, plaintext, now) ==
    [keys |-> session_keys, nid |-> nid, plaintext |-> plaintext, sent_at |-> now,
     rotations |-> Len(r_history)]
\* the nonce generate_nonce draws in the n-th send of a side: draws of different
\* calls are taken to differ in this scenario
Drawn(p, n) == <<"drawn", p, n>>
\* the bytes of the datagram
DataOf(d) == encrypt_packet(d.keys, generate_nonce(d.nid, NonceLen), d.plaintext, <<>>).data

\* ClawChatClient._send_message: a KEEPALIVE under the client's session keys
RClientSend ==
    /\ RFrame
    /\ r_sends < MaxRotSends
    /\ LET msg == Message(MessageType_KEEPALIVE, "{\"ping\": true}", Epoch,
                          <<"client", r_sends>>)
       IN  r_wire' = r_wire \cup
               {Datagram(r_crypto[Client], Drawn(Client, r_sends), to_bytes(msg), r_now)}
    /\ r_sends' = r_sends + 1
    /\ UNCHANGED <<r_now, r_ticks, r_rot, r_history, r_crypto, r_peer, r_notice, r_seen, r_res, r_cres, r_pc>>

\* ClawChatServer._send_message(KEY_ROTATION, msg): nothing is sent without a
\* peer_address, else the frame goes out encrypted under the CryptoManager's keys
rotation_notice(session_keys, msg, now, nid) ==
    Datagram(session_keys, nid,
             frame(MessageType_KEY_ROTATION, now,
                   token_hex(<<"rotation", now>>, MessageIdBytes),
                   <<[t |-> "json", v |-> <<msg>>]>>), now)

\* the head of _process_loop with perform_rotation moved ahead of _send_message
RServerNotify_rotates_first ==
    /\ RFrame
    /\ r_pc = "loop"
    /\ check_rotation_needed(r_rot, r_now)
    /\ LET st == staged(r_rot, RConnId, r_now)
           msg == create_rotation_message(st, RConnId, r_now)
           new == perform_rotation(st, RConnId, r_now)
       IN  /\ r_history' = rotated_history(r_history, st, r_now)
           /\ r_rot' = new
           /\ r_crypto' = [r_crypto EXCEPT ![Server] = new.current_keys]
           /\ r_notice' = IF r_peer
                          THEN r_notice \cup {rotation_notice(new.current_keys, msg, r_now,
                                                              Drawn(Server, Len(r_history)))}
                          ELSE r_notice
    /\ r_pc' = "loop"
    /\ UNCHANGED <<r_now, r_ticks, r_peer, r_wire, r_sends, r_seen, r_res, r_cres>>

\* ClawChatServer._process_loop with a rotation due: create_rotation_message, which
\* stages next_keys, and _send_message(KEY_ROTATION)
RServerNotify ==
    /\ RFrame
    /\ r_pc = "loop"
    /\ check_rotation_needed(r_rot, r_now)
    /\ LET st == staged(r_rot, RConnId, r_now)
           msg == create_rotation_message(st, RConnId, r_now)
       IN  /\ r_rot' = st
           /\ r_notice' = IF r_peer
                          THEN r_notice \cup {rotation_notice(r_crypto[Server], msg, r_now,
                                                              Drawn(Server, Len(r_history)))}
                          ELSE r_notice
    /\ r_pc' = "notified"
    /\ UNCHANGED <<r_now, r_ticks, r_history, r_crypto, r_peer, r_wire, r_sends, r_seen,
                   r_res, r_cres>>

\* the next statement of _process_loop: perform_rotation and the _on_key_rotation
\* callback, which installs the new keys in the CryptoManager
RServerPerform ==
    /\ RFrame
    /\ r_pc = "notified"
    /\ r_history' = rotated_history(r_history, r_rot, r_now)
    /\ r_rot' = perform_rotation(r_rot, RConnId, r_now)
    /\ r_crypto' = [r_crypto EXCEPT ![Server] = r_rot'.current_keys]
    /\ r_pc' = "loop"
    /\ UNCHANGED <<r_now, r_ticks, r_peer, r_wire, r_sends, r_notice, r_seen, r_res, r_cres>>

\* ClawChatServer._process_loop with no rotation due: recvfrom and _handle_packet
RServerHandle ==
    /\ RFrame
    /\ r_pc = "loop"
    /\ ~check_rotation_needed(r_rot, r_now)
    /\ \E pkt \in r_wire :
         LET r == decrypt_packet(r_crypto[Server], DataOf(pkt), <<>>)
         IN  /\ r_wire' = r_wire \ {pkt}
             /\ r_res' = [handled |-> TRUE, sent_at |-> pkt.sent_at, at |-> r_now,
                          ok |-> r.ok, keys |-> pkt.keys, rotations |-> pkt.rotations]
             /\ r_peer' = (r_peer \/ (r.ok /\ from_bytes(r.data).ok))
    /\ UNCHANGED <<r_now, r_ticks, r_rot, r_history, r_crypto, r_sends, r_notice, r_seen,
                   r_cres, r_pc>>

\* ClawChatClient._handle_packet on a KEY_ROTATION message: it is counted and
\* reported, the client's keys stay as they are
RClientHandle ==
    /\ RFrame
    /\ \E n \in r_notice :
         LET r == decrypt_packet(r_crypto[Client], DataOf(n), <<>>)
             handled == r.ok /\ from_bytes(r.data).ok
         IN  /\ r_notice' = r_notice \ {n}
             /\ r_seen' = IF handled THEN r_seen + 1 ELSE r_seen
             /\ r_cres' = [handled |-> TRUE, sent_at |-> n.sent_at, at |-> r_now,
                           ok |-> handled, keys |-> n.keys, rotations |-> n.rotations]
    /\ UNCHANGED <<r_now, r_ticks, r_rot, r_history, r_crypto, r_peer, r_wire, r_sends, r_res, r_pc>>

\* time passes
RTick ==
    /\ RFrame
    /\ r_pc = "loop"
    /\ r_ticks < MaxRotTicks
    /\ \E d \in RotSteps : r_now' = r_now + d
    /\ r_ticks' = r_ticks + 1
    /\ UNCHANGED <<r_rot, r_history, r_crypto, r_peer, r_wire, r_sends, r_notice, r_seen, r_res, r_cres, r_pc>>

RNext ==
    \/ RClientSend
    \/ RServerNotify
    \/ RServerPerform
    \/ RServerHandle
    \/ RClientHandle
    \/ RTick

----------------------------------------------------------------------------
(* file_manager.py, file_generator.py, server/main.py, client/main.py: bootstrap *)

BootstrapKey == Text("bootstrap-key-32bytes-long-for-d")
ServerId == Text("clawchat-server")

base64_decode(b) ==
    IF Len(b) = 1 /\ b[1].t = "b64" THEN b[1].v ELSE <<>>

\* PBKDF2-HMAC-SHA256 of the password under salt and iteration count
derive_key(password, salt, iterations) ==
    <<[t |-> "pbkdf2", v |-> password \o salt \o <<Byte(iterations)>>]>>

\* SecurityFile.to_json encoded as UTF-8: one block that holds the document
to_json(security_file) == <<[t |-> "json", v |-> <<security_file>>]>>
\* SecurityFile.from_json; ok is FALSE where json.loads raises
from_json(plaintext) ==
    IF Len(plaintext) = 1 /\ plaintext[1].t = "json"
    THEN [ok |-> TRUE, file |-> plaintext[1].v[1]]
    ELSE [ok |-> FALSE, file |-> 0]

\* CryptoManager.encrypt_file; n numbers the draws of the random source
encrypt_file(plaintext, password, iterations, n) ==
    LET salt == Token32(<<"salt", n>>)
        nonce == generate_nonce(<<"file", n>>, NonceLen)
        key == derive_key(password, salt, iterations)
        ciphertext == AESGCM_encrypt(key, nonce, plaintext, <<>>)
    IN  [version |-> "2.0", salt |-> base64_encode(salt), iv |-> base64_encode(nonce),
         ciphertext |-> base64_encode(SubSeq(ciphertext, 1, Len(ciphertext) - TagLen)),
         tag |-> base64_encode(SubSeq(ciphertext, Len(ciphertext) - TagLen + 1,
                                      Len(ciphertext))),
         algorithm |-> "aes-256-gcm-pbkdf2", iterations |-> iterations]

\* decrypt_file that runs the cipher without verifying the tag
decrypt_file_tag_ignored(package, password) ==
    LET salt == base64_decode(package.salt)
        nonce == base64_decode(package.iv)
        key == derive_key(password, salt, package.iterations)
        ct == base64_decode(package.ciphertext)
    IN  Ok([i \in 1..Len(ct) |-> CtrDecrypt(key, nonce, i, ct[i])])

\* CryptoManager.decrypt_file; ok is FALSE where the code raises DecryptionError
decrypt_file(package, password) ==
    LET salt == base64_decode(package.salt)
        nonce == base64_decode(package.iv)
        key == derive_key(password, salt, package.iterations)
        full_ciphertext == base64_decode(package.ciphertext) \o base64_decode(package.tag)
        r == AESGCM_decrypt(key, nonce, full_ciphertext, <<>>)
    IN  \* except Exception as e: raise DecryptionError
        IF r.ok THEN r ELSE Err("DecryptionError")

\* SecurityFileManager.create_security_file: the SecurityFile it assembles
SecurityFile(server_id, server_ip, server_port, shared_secret, validity_minutes, now, n) ==
    [version |-> "2.0", protocol |-> "clawchat-file-v2", server_id |-> server_id,
     server_public_ip |-> server_ip, server_udp_port |-> server_port,
     shared_secret |-> base64_encode(shared_secret),
     bootstrap_key_id |-> "bootstrap-001",
     timestamp |-> now, valid_from |-> now, valid_until |-> now + validity_minutes * 60,
     next_rotation |-> now + NextRotationDelay, grace_period |-> FileGracePeriod,
     connection_id |-> Text("clawchat-") \o <<Byte(now)>> \o Text("-")
                         \o token_hex(<<"connection", n>>, MessageIdBytes)]

\* is_valid with the upper edge of the window included
is_valid_until_inclusive(security_file, now) ==
    security_file.valid_from <= now /\ now <= security_file.valid_until

\* SecurityFile.is_valid
is_valid(security_file, now) ==
    security_file.valid_from <= now /\ now < security_file.valid_until

\* SecurityFileGenerator.generate_file, the n-th call: the secret it draws and
\* the file it writes
generated_secret(n) == Token32(<<"file", n>>)
generate_file(now, n) ==
    LET document == SecurityFile(ServerId, 2, 2, generated_secret(n), VALIDITY_MINUTES, now, n)
    IN  [document |-> document,
         package |-> encrypt_file(to_json(document), BootstrapKey, Pbkdf2Iterations, n)]

NoSecurityFile ==
    SecurityFile(<<>>, 0, 0, <<>>, 0, 0, 0)
NoServer ==
    [started |-> FALSE, shared_secret |-> <<>>, connection_id |-> <<>>, timestamp |-> 0,
     keys |-> NoKeys, handler_connection_id |-> <<>>, rotator_connection_id |-> <<>>]
NoClient ==
    [loaded |-> FALSE, file |-> 0, security_file |-> NoSecurityFile,
     shared_secret |-> <<>>, server_address |-> NoAddr, connected |-> FALSE,
     connection_id |-> <<>>, timestamp |-> 0, keys |-> NoKeys,
     handler_connection_id |-> <<>>, rotator_connection_id |-> <<>>,
     connect_at |-> 0, punched |-> FALSE]

SessSteps == {1, VALIDITY_MINUTES * 60}

\* what no bootstrap step touches
SFrame == UNCHANGED <<cvars, hvars, wvars, kvars, rvars, dvars, vvars, gvars, ovars, fvars, pvars, nvars, tvars, avars, evars, mvars>>

SInit ==
    /\ s_now = Epoch
    /\ s_ticks = 0
    /\ s_files = <<>>
    /\ s_gen = <<>>
    /\ s_server = NoServer
    /\ s_client = NoClient

\* ClawChatServer.start up to the handlers: generate_initial_security_file,
\* connection_id, derive_session_keys, KeyRotator, CompromisedProtocolHandler;
\* the clock may have moved on by a second between the two readings
SServerStart ==
    /\ SFrame
    /\ ~s_server.started
    /\ Len(s_files) < MaxFiles
    /\ \E d \in {0, 1} :
         LET n == Len(s_files) + 1
             shared_secret == generated_secret(n)
             now == s_now + d
             connection_id == ServerId \o Text("-") \o <<Byte(now)>>
         IN  /\ s_files' = Append(s_files, generate_file(s_now, n))
             /\ s_gen' = shared_secret
             /\ s_now' = now
             /\ s_server' = [started |-> TRUE, shared_secret |-> shared_secret,
                             connection_id |-> connection_id, timestamp |-> now,
                             keys |-> derive_session_keys(shared_secret, connection_id, now),
                             handler_connection_id |-> connection_id,
                             rotator_connection_id |-> connection_id]
    /\ UNCHANGED <<s_ticks, s_client>>

\* ClawChatServer._on_new_file_generated: a further file with a fresh secret;
\* the server's own shared_secret and keys stay as they are
SNewFile ==
    /\ SFrame
    /\ s_server.started
    /\ Len(s_files) < MaxFiles
    /\ LET n == Len(s_files) + 1
       IN  /\ s_files' = Append(s_files, generate_file(s_now, n))
           /\ s_gen' = generated_secret(n)
    /\ UNCHANGED <<s_now, s_ticks, s_server, s_client>>

\* ClawChatClient.load_security_file on one of the files
SClientLoad ==
    /\ SFrame
    /\ ~s_client.connected
    /\ \E i \in 1..Len(s_files) :
         LET plaintext == decrypt_file(s_files[i].package, BootstrapKey)
             parsed == from_json(plaintext.data)
         IN  IF ~plaintext.ok \/ ~parsed.ok
             THEN UNCHANGED s_client
             ELSE IF ~is_valid(parsed.file, s_now)
             THEN s_client' = [s_client EXCEPT !.security_file = parsed.file,
                                               !.file = i, !.loaded = FALSE]
             ELSE s_client' = [s_client EXCEPT
                                   !.security_file = parsed.file,
                                   !.file = i,
                                   !.loaded = TRUE,
                                   !.shared_secret = base64_decode(parsed.file.shared_secret),
                                   !.server_address =
                                       [ip |-> parsed.file.server_public_ip,
                                        port |-> parsed.file.server_udp_port]]
    /\ UNCHANGED <<s_now, s_ticks, s_files, s_gen, s_server>>

\* ClawChatClient.connect: returns at once without a security_file; raises in
\* derive_session_keys while shared_secret is None; otherwise derives the keys,
\* builds the handlers and, unless NAT detection reports BLOCKED, punches
SClientConnect ==
    /\ SFrame
    /\ s_client.security_file # NoSecurityFile
    /\ ~s_client.connected
    /\ \E blocked \in BOOLEAN :
         LET connection_id == s_client.security_file.connection_id
             timestamp == s_client.security_file.timestamp
         IN  IF s_client.shared_secret = <<>>
             THEN s_client' = [s_client EXCEPT !.connection_id = connection_id,
                                               !.connect_at = s_now]
             ELSE s_client' = [s_client EXCEPT
                                   !.connected = TRUE,
                                   !.connection_id = connection_id,
                                   !.timestamp = timestamp,
                                   !.keys = derive_session_keys(s_client.shared_secret,
                                                                connection_id, timestamp),
                                   !.handler_connection_id = connection_id,
                                   !.rotator_connection_id = connection_id,
                                   !.connect_at = s_now,
                                   !.punched = ~blocked]
    /\ UNCHANGED <<s_now, s_ticks, s_files, s_gen, s_server>>

\* time passes
STick ==
    /\ SFrame
    /\ s_ticks < MaxSessTicks
    /\ \E d \in SessSteps : s_now' = s_now + d
    /\ s_ticks' = s_ticks + 1
    /\ UNCHANGED <<s_files, s_gen, s_server, s_client>>

SNext ==
    \/ SServerStart
    \/ SNewFile
    \/ SClientLoad
    \/ SClientConnect
    \/ STick

----------------------------------------------------------------------------
(* encryption.py: derive_session_keys called repeatedly and by both peers *)

Invocations == {1, 2}
DeriveSecrets == {Token32(1), Token32(2)}
DeriveConnIds == {Text("conn-123"), Text("conn-456")}
DeriveTimes == {Epoch, Epoch + 1}

\* what no derivation step touches
DFrame == UNCHANGED <<cvars, hvars, wvars, kvars, rvars, svars, vvars, gvars, ovars, fvars, pvars, nvars, tvars, avars, evars, mvars>>

DInit == d_log = <<>>

\* one invocation calls derive_session_keys(shared_secret, connection_id, timestamp)
DDerive ==
    /\ DFrame
    /\ Len(d_log) < MaxDerive
    /\ \E who \in Invocations, shared_secret \in DeriveSecrets,
          connection_id \in DeriveConnIds, timestamp \in DeriveTimes :
         d_log' = Append(d_log,
                         [who |-> who, shared_secret |-> shared_secret,
                          connection_id |-> connection_id, timestamp |-> timestamp,
                          keys |-> derive_session_keys(shared_secret, connection_id,
                                                       timestamp)])

DNext == DDerive

----------------------------------------------------------------------------
(* file_manager.py: SecurityFile.is_valid on any window and any clock *)

ValidTimes == Epoch..(Epoch + MaxValidSpan)
NoValidCall == [called |-> FALSE, value |-> FALSE]

\* what no validity step touches
VFrame == UNCHANGED <<cvars, hvars, wvars, kvars, rvars, svars, dvars, gvars, ovars, fvars, pvars, nvars, tvars, avars, evars, mvars>>

VInit ==
    /\ v_file \in {[NoSecurityFile EXCEPT !.valid_from = a, !.valid_until = b] :
                       a \in ValidTimes, b \in ValidTimes}
    /\ v_now = Epoch
    /\ v_res = NoValidCall

\* SecurityFile.is_valid()
VIsValid ==
    /\ VFrame
    /\ v_res' = [called |-> TRUE, value |-> is_valid(v_file, v_now)]
    /\ UNCHANGED <<v_file, v_now>>

\* the clock moves on by a second
VTick ==
    /\ VFrame
    /\ v_now < Epoch + MaxValidSpan
    /\ v_now' = v_now + 1
    /\ v_res' = NoValidCall
    /\ UNCHANGED v_file

VNext == VIsValid \/ VTick

----------------------------------------------------------------------------
(* file_generator.py: _regeneration_loop beside mark_client_connected *)

RegenSteps == {RegenSleep, REGENERATE_INTERVAL}

\* what no regeneration step touches
GFrame == UNCHANGED <<cvars, hvars, wvars, kvars, rvars, svars, dvars, vvars, ovars, fvars, pvars, nvars, tvars, avars, evars, mvars>>

\* ClawChatLLMServer.generate_initial_security_file has run: one file exists and
\* start_auto_regeneration has started the thread
GInit ==
    /\ g_now = Epoch
    /\ g_ticks = 0
    /\ g_running = TRUE
    /\ g_client_connected = FALSE
    /\ g_last_file_time = Epoch
    /\ g_files = 1
    /\ g_pc = "while"
    /\ g_wake_at = 0
    /\ g_main = "serving"
    /\ g_late = 0

\* while self._running:
GWhile ==
    /\ GFrame
    /\ g_pc = "while"
    /\ g_pc' = IF g_running THEN "sleep" ELSE "exit"
    /\ g_wake_at' = g_now + RegenSleep
    /\ UNCHANGED <<g_now, g_ticks, g_running, g_client_connected, g_last_file_time,
                   g_files, g_main, g_late>>

\* time.sleep(5) returns; if self._client_connected: continue
GTestConnected ==
    /\ GFrame
    /\ g_pc = "sleep"
    /\ g_now >= g_wake_at
    /\ g_pc' = IF g_client_connected THEN "while" ELSE "elapsed"
    /\ UNCHANGED <<g_now, g_ticks, g_running, g_client_connected, g_last_file_time,
                   g_files, g_wake_at, g_main, g_late>>

\* the test of the elapsed time made against the validity of a file instead of
\* the regeneration interval
GTestElapsed_at_expiry ==
    /\ GFrame
    /\ g_pc = "elapsed"
    /\ g_pc' = IF g_now - g_last_file_time >= VALIDITY_MINUTES * 60
               THEN "generate" ELSE "while"
    /\ UNCHANGED <<g_now, g_ticks, g_running, g_client_connected, g_last_file_time,
                   g_files, g_wake_at, g_main, g_late>>

\* elapsed = time.time() - self._last_file_time; if elapsed >= REGENERATE_INTERVAL
GTestElapsed ==
    /\ GFrame
    /\ g_pc = "elapsed"
    /\ g_pc' = IF g_now - g_last_file_time >= REGENERATE_INTERVAL
               THEN "generate" ELSE "while"
    /\ UNCHANGED <<g_now, g_ticks, g_running, g_client_connected, g_last_file_time,
                   g_files, g_wake_at, g_main, g_late>>

\* self.generate_file()
GGenerate ==
    /\ GFrame
    /\ g_pc = "generate"
    /\ g_files < MaxRegenFiles
    /\ g_files' = g_files + 1
    /\ g_last_file_time' = g_now
    /\ g_late' = IF g_main = "marked" THEN g_late + 1 ELSE g_late
    /\ g_pc' = "while"
    /\ UNCHANGED <<g_now, g_ticks, g_running, g_client_connected, g_wake_at, g_main>>

\* _handle_packet on the first datagram calls mark_client_connected:
\* if not self._client_connected
GMarkTest ==
    /\ GFrame
    /\ g_main = "serving"
    /\ g_main' = IF ~g_client_connected THEN "marking" ELSE "marked"
    /\ UNCHANGED <<g_now, g_ticks, g_running, g_client_connected, g_last_file_time,
                   g_files, g_pc, g_wake_at, g_late>>

\* self._client_connected = True, and mark_client_connected returns
GMarkSet ==
    /\ GFrame
    /\ g_main = "marking"
    /\ g_client_connected' = TRUE
    /\ g_main' = "marked"
    /\ UNCHANGED <<g_now, g_ticks, g_running, g_last_file_time, g_files, g_pc,
                   g_wake_at, g_late>>

\* stop_auto_regeneration: self._running = False
GStop ==
    /\ GFrame
    /\ g_running
    /\ g_main \in {"serving", "marked"}
    /\ g_running' = FALSE
    /\ UNCHANGED <<g_now, g_ticks, g_client_connected, g_last_file_time, g_files,
                   g_pc, g_wake_at, g_main, g_late>>

\* time passes
GTick ==
    /\ GFrame
    /\ g_ticks < MaxRegenTicks
    /\ \E d \in RegenSteps : g_now' = g_now + d
    /\ g_ticks' = g_ticks + 1
    /\ UNCHANGED <<g_running, g_client_connected, g_last_file_time, g_files, g_pc,
                   g_wake_at, g_main, g_late>>

\* the time the regeneration thread is followed for
RegenHorizon == MaxRegenFiles * (REGENERATE_INTERVAL + RegenSleep + MaxOversleep)

\* time.sleep(5) runs: the clock moves to the end of the sleep, which the
\* scheduler may overrun by up to MaxOversleep seconds; the other statements of
\* the loop take no time
GSleep ==
    /\ GFrame
    /\ g_pc = "sleep"
    /\ g_now < g_wake_at
    /\ g_now < Epoch + RegenHorizon
    /\ \E late \in 0..MaxOversleep : g_now' = g_wake_at + late
    /\ UNCHANGED <<g_ticks, g_running, g_client_connected, g_last_file_time, g_files,
                   g_pc, g_wake_at, g_main, g_late>>

\* the regeneration thread under the clock of its own sleeps, and the main
\* thread marking a client
GTimedNext ==
    \/ GWhile
    \/ GSleep
    \/ GTestConnected
    \/ GTestElapsed
    \/ GGenerate
    \/ GMarkTest
    \/ GMarkSet

GNext ==
    \/ GWhile
    \/ GTestConnected
    \/ GTestElapsed
    \/ GGenerate
    \/ GMarkTest
    \/ GMarkSet
    \/ GStop
    \/ GTick

----------------------------------------------------------------------------
(* compromised.py: a handler handed signals and ACKs over and over *)

\* what no delivery to a handler touches
OFrame == UNCHANGED <<cvars, hvars, wvars, rvars, svars, dvars, vvars, gvars, fvars, pvars, nvars, tvars, avars, evars, mvars>>

OInit ==
    /\ o_destroyed = [p \in KPeers |-> 0]
    /\ o_accepted = [p \in KPeers |-> {}]
    /\ o_replayed = [p \in KPeers |-> FALSE]

\* handle_compromised_signal(message) on either handler; the server's caller
\* answers an accepted signal with create_ack_signal
ODeliverSignal ==
    /\ OFrame
    /\ \E p \in KPeers, message \in k_net :
         LET accepted == handle_compromised_signal(KConnId, k_mac[p], message, k_now)
             after == after_compromised_signal(p, k_state[p], k_mac[p], accepted, k_now)
         IN  /\ accepted => o_destroyed[p] < MaxDestroy
             /\ k_mac' = [k_mac EXCEPT ![p] = after.mac_key]
             /\ k_state' = [k_state EXCEPT ![p] = after.state]
             /\ k_running' = [k_running EXCEPT ![p] = @ /\ ~after.keys_destroyed]
             /\ k_new_file' = (k_new_file \/ after.new_file)
             /\ k_net' = IF accepted /\ is_server(p)
                         THEN k_net \cup {create_ack_signal(KConnId, after.mac_key, TRUE, k_now)}
                         ELSE k_net
             /\ o_destroyed' = [o_destroyed EXCEPT ![p] = IF accepted THEN @ + 1 ELSE @]
             /\ o_replayed' = [o_replayed EXCEPT ![p] = @ \/ message \in o_accepted[p]]
             /\ o_accepted' = [o_accepted EXCEPT
                                  ![p] = IF accepted THEN @ \cup {message} ELSE @]
    /\ UNCHANGED <<k_now, k_ticks, k_crypto, k_sig_calls, k_ack_call, k_sent>>

\* handle_ack_signal(message) on either handler: the method does not look at
\* is_server
ODeliverAck ==
    /\ OFrame
    /\ \E p \in KPeers, message \in k_net :
         LET accepted == handle_ack_signal(KConnId, k_mac[p], message)
         IN  /\ accepted => o_destroyed[p] < MaxDestroy
             /\ IF accepted
                THEN /\ k_mac' = [k_mac EXCEPT ![p] = destroyed_mac(p, k_now)]
                     /\ k_state' = [k_state EXCEPT ![p] = destroyed_state(p)]
                     /\ k_running' = [k_running EXCEPT ![p] = FALSE]
                     /\ k_new_file' = (k_new_file \/ is_server(p))
                ELSE UNCHANGED <<k_mac, k_state, k_running, k_new_file>>
             /\ o_destroyed' = [o_destroyed EXCEPT ![p] = IF accepted THEN @ + 1 ELSE @]
             /\ o_replayed' = [o_replayed EXCEPT ![p] = @ \/ message \in o_accepted[p]]
             /\ o_accepted' = [o_accepted EXCEPT
                                  ![p] = IF accepted THEN @ \cup {message} ELSE @]
    /\ UNCHANGED <<k_now, k_ticks, k_crypto, k_net, k_sig_calls, k_ack_call, k_sent>>

\* create_compromised_signal called on either handler, whatever its state
OCreateSignal ==
    /\ OFrame
    /\ UNCHANGED ovars
    /\ Cardinality(k_net) < MaxSignals
    /\ \E p \in KPeers, reason \in Reasons :
        /\ k_net' = k_net \cup {create_compromised_signal(KConnId, k_mac[p], reason, k_now)}
        /\ k_state' = [k_state EXCEPT ![p] = "SIGNAL_SENT"]
    /\ UNCHANGED <<k_now, k_ticks, k_mac, k_running, k_crypto, k_sig_calls, k_ack_call,
                   k_sent, k_new_file>>

\* create_ack_signal() called on the server's handler as it stands
OCreateAck ==
    /\ OFrame
    /\ UNCHANGED ovars
    /\ Cardinality(k_net) < MaxSignals
    /\ k_net' = k_net \cup {create_ack_signal(KConnId, k_mac[Server], TRUE, k_now)}
    /\ UNCHANGED <<k_now, k_ticks, k_state, k_mac, k_running, k_crypto, k_sig_calls,
                   k_ack_call, k_sent, k_new_file>>

ONext ==
    \/ KTrigger
    \/ KForge
    \/ OCreateAck
    \/ OCreateSignal
    \/ ODeliverSignal
    \/ ODeliverAck
    \/ KTick

----------------------------------------------------------------------------
(* messages.py: MessageHandler.parse_message on buffers with untrue length fields *)

\* what no parse touches
FFrame == UNCHANGED <<cvars, hvars, wvars, kvars, rvars, svars, dvars, vvars, gvars, ovars, pvars, nvars, tvars, avars, evars, mvars>>

\* MessageHandler.parse_message: None (NoMessage) where Message.from_bytes raises
parse_message(data) ==
    LET r == from_bytes(data) IN IF r.ok THEN r.msg ELSE NoMessage

\* the layout of to_bytes with the two length fields written freely
raw_frame(msg_type, timestamp, id_len, msg_id_bytes, payload_len, payload_json) ==
    pack_B(msg_type) \o pack_d(timestamp) \o pack_B(id_len) \o msg_id_bytes
        \o pack_I(payload_len) \o payload_json

\* buffers that end inside or right after the message_id
ShortBuffers ==
    { pack_B(t) \o pack_d(Epoch) \o pack_B(k + e)
          \o SubSeq(token_hex("f", MessageIdBytes), 1, k) :
        t \in MessageTypes, k \in 0..MaxIdLen, e \in 0..MaxExcess }

\* whole frames whose payload_length claims e bytes too many, cut by c bytes
LongBuffers ==
    { LET whole == raw_frame(t, Epoch, k, SubSeq(token_hex("f", MessageIdBytes), 1, k),
                             JsonLen(q) + e, json_dumps(q))
      IN  SubSeq(whole, 1, Len(whole) - c) :
        t \in MessageTypes, k \in 0..MaxIdLen, q \in Payloads,
        e \in 0..MaxExcess, c \in 0..MaxCut }

FrameBuffers == ShortBuffers \cup LongBuffers

NotParsed == [called |-> FALSE, msg |-> NoMessage]

FInit ==
    /\ f_data \in FrameBuffers
    /\ f_parsed = NotParsed

FParseMessage ==
    /\ FFrame
    /\ ~f_parsed.called
    /\ f_parsed' = [called |-> TRUE, msg |-> parse_message(f_data)]
    /\ UNCHANGED f_data

FNext == FParseMessage

----------------------------------------------------------------------------
(* encryption.py: CryptoManager file mode, with the package altered in between *)

\* what no file mode step touches
PFrame == UNCHANGED <<cvars, hvars, wvars, kvars, rvars, svars, dvars, vvars, gvars, ovars, fvars, nvars, tvars, avars, evars, mvars>>

FilePasswords == {BootstrapKey, Text("another-password")}
PackageFields == {"salt", "iv", "ciphertext", "tag"}
NoPackage == [version |-> "", salt |-> <<>>, iv |-> <<>>, ciphertext |-> <<>>, tag |-> <<>>,
              algorithm |-> "", iterations |-> 0]
NoDecrypt == [called |-> FALSE, password |-> <<>>, result |-> NoResult]

PInit ==
    /\ p_plain = <<>>
    /\ p_password = <<>>
    /\ p_package = NoPackage
    /\ p_altered = "none"
    /\ p_out = NoDecrypt

\* encrypt_file(plaintext, password) with the default iteration count
PEncryptFile ==
    /\ PFrame
    /\ p_package = NoPackage
    /\ \E plaintext \in Plaintexts, password \in FilePasswords, n \in 1..MaxFileDraws :
        /\ p_plain' = plaintext
        /\ p_password' = password
        /\ p_package' = encrypt_file(plaintext, password, Pbkdf2Iterations, n)
    /\ UNCHANGED <<p_altered, p_out>>

\* one bit of one field's bytes is flipped while the package is stored or carried
PFlipField ==
    /\ PFrame
    /\ p_package # NoPackage
    /\ p_altered = "none"
    /\ ~p_out.called
    /\ \E field \in PackageFields :
        LET bytes == base64_decode(p_package[field])
        IN  \E pos \in 1..Len(bytes), bit \in Bits :
              /\ p_package' = [p_package EXCEPT
                                  ![field] = base64_encode([bytes EXCEPT ![pos] = FlipBit(@, bit)])]
              /\ p_altered' = field
    /\ UNCHANGED <<p_plain, p_password, p_out>>

\* the first byte of the tag is moved to the end of the ciphertext field
PMoveBoundary ==
    /\ PFrame
    /\ p_package # NoPackage
    /\ p_altered = "none"
    /\ ~p_out.called
    /\ LET ct == base64_decode(p_package.ciphertext)
           tag == base64_decode(p_package.tag)
       IN  p_package' = [p_package EXCEPT !.ciphertext = base64_encode(Append(ct, Head(tag))),
                                           !.tag = base64_encode(Tail(tag))]
    /\ p_altered' = "boundary"
    /\ UNCHANGED <<p_plain, p_password, p_out>>

\* decrypt_file(package, password)
PDecryptFile ==
    /\ PFrame
    /\ p_package # NoPackage
    /\ ~p_out.called
    /\ \E password \in FilePasswords :
        p_out' = [called |-> TRUE, password |-> password,
                  result |-> decrypt_file(p_package, password)]
    /\ UNCHANGED <<p_plain, p_password, p_package, p_altered>>

PNext == PEncryptFile \/ PFlipField \/ PMoveBoundary \/ PDecryptFile

----------------------------------------------------------------------------
(* encryption.py: consecutive encrypt_packet calls under one installed key set *)

\* what no call of this scenario touches
NFrame == UNCHANGED <<cvars, hvars, wvars, kvars, rvars, svars, dvars, vvars, gvars, ovars, fvars, pvars, tvars, avars, evars, mvars>>

\* what secrets.token_bytes(12) can return
NonceDraws == 1..MaxDraws

NInit ==
    /\ n_keys = NoKeys
    /\ n_installs = 0
    /\ n_packets = <<>>

\* CryptoManager.set_session_keys(keys)
NSetSessionKeys ==
    /\ NFrame
    /\ n_installs < MaxInstalls
    /\ \E k \in KeySets :
        /\ k # n_keys
        /\ n_keys' = k
    /\ n_installs' = n_installs + 1
    /\ n_packets' = <<>>

\* CryptoManager.encrypt_packet(plaintext): the nonce is drawn afresh in every call
NEncryptPacket ==
    /\ NFrame
    /\ n_keys # NoKeys
    /\ Len(n_packets) < MaxEncrypts
    /\ \E plaintext \in Plaintexts, draw \in NonceDraws :
        LET packet == encrypt_packet(n_keys, generate_nonce(draw, NonceLen), plaintext, <<>>)
        IN  /\ packet.ok
            /\ n_packets' = Append(n_packets, packet.data)
    /\ UNCHANGED <<n_keys, n_installs>>

NNext == NSetSessionKeys \/ NEncryptPacket

----------------------------------------------------------------------------
(* compromised.py: handle_compromised_signal and _destroy_keys, statement by statement *)

\* what no statement of the handler touches
TFrame == UNCHANGED <<cvars, hvars, wvars, kvars, rvars, svars, dvars, vvars, gvars, ovars, fvars, pvars, nvars, avars, evars, mvars>>

\* the callbacks a handler can be built with
Callbacks == [on_keys_destroyed : BOOLEAN, on_new_file_generated : BOOLEAN]
\* the signals a handler is handed, and the clock readings it takes
HandledSignals == {Defective(d, reason) : d \in Defects, reason \in Reasons}
HandledTimes == {Epoch, Epoch + ReplayWindow, Epoch + ReplayWindow + 1}

SetState(state) == [kind |-> "state", what |-> state]
Invoke(callback) == [kind |-> "call", what |-> callback]

TStart(is_server_, callbacks) ==
    /\ t_is_server = is_server_
    /\ t_cb = callbacks
    /\ t_mac = KKeys.mac_key
    /\ t_state = "NORMAL"
    /\ t_pc = "idle"
    /\ t_events = <<>>
    /\ t_message = NoSignal
    /\ t_ret = "none"
    /\ t_calls = 0

TInit == \E is_server_ \in BOOLEAN, callbacks \in Callbacks : TStart(is_server_, callbacks)
\* the server's handler as ClawChatServer builds it
TQuiet == TStart(TRUE, [on_keys_destroyed |-> TRUE, on_new_file_generated |-> TRUE])

\* the `return True` / `return False` of handle_compromised_signal
TReturn(value) ==
    /\ t_ret' = value
    /\ t_pc' = "idle"

\* handle_compromised_signal up to self.state = SIGNAL_RECEIVED, or to a `return False`
THandle ==
    /\ TFrame
    /\ t_pc = "idle"
    /\ t_calls < MaxHandled
    /\ t_calls' = t_calls + 1
    /\ \E message \in HandledSignals, now \in HandledTimes :
        /\ t_message' = message
        /\ IF handle_compromised_signal(KConnId, t_mac, message, now)
           THEN /\ t_state' = "SIGNAL_RECEIVED"
                /\ t_events' = <<SetState("SIGNAL_RECEIVED")>>
                /\ t_pc' = "destroy"
                /\ t_ret' = "none"
           ELSE /\ t_events' = <<>>
                /\ TReturn("False")
                /\ UNCHANGED t_state
    /\ UNCHANGED <<t_is_server, t_cb, t_mac>>

\* _destroy_keys with the two statements in the other order: callback, then state
TDestroyKeys_state_late ==
    /\ TFrame
    /\ t_pc = "destroy"
    /\ t_mac' = destroyed_mac(IF t_is_server THEN Server ELSE Client, t_calls)
    /\ t_state' = "KEYS_DESTROYED"
    /\ t_events' = IF t_cb.on_keys_destroyed
                   THEN t_events \o <<Invoke("on_keys_destroyed"), SetState("KEYS_DESTROYED")>>
                   ELSE Append(t_events, SetState("KEYS_DESTROYED"))
    /\ t_pc' = "branch"
    /\ UNCHANGED <<t_is_server, t_cb, t_message, t_ret, t_calls>>

\* _destroy_keys: the mac_key is replaced, self.state = KEYS_DESTROYED
TDestroyKeys ==
    /\ TFrame
    /\ t_pc = "destroy"
    /\ t_mac' = destroyed_mac(IF t_is_server THEN Server ELSE Client, t_calls)
    /\ t_state' = "KEYS_DESTROYED"
    /\ t_events' = Append(t_events, SetState("KEYS_DESTROYED"))
    /\ t_pc' = "cb_keys"
    /\ UNCHANGED <<t_is_server, t_cb, t_message, t_ret, t_calls>>

\* _destroy_keys: "if self.on_keys_destroyed: self.on_keys_destroyed()"; what the
\* callback raises is caught by handle_compromised_signal, which returns False
TOnKeysDestroyed ==
    /\ TFrame
    /\ t_pc = "cb_keys"
    /\ IF t_cb.on_keys_destroyed
       THEN /\ t_events' = Append(t_events, Invoke("on_keys_destroyed"))
            /\ \E raises \in BOOLEAN :
                IF raises THEN TReturn("False")
                ELSE t_pc' = "branch" /\ UNCHANGED t_ret
       ELSE /\ t_pc' = "branch"
            /\ UNCHANGED <<t_events, t_ret>>
    /\ UNCHANGED <<t_is_server, t_cb, t_mac, t_state, t_message, t_calls>>

\* _destroy_keys: "if self.is_server: self.state = WAITING_FOR_NEW_KEYS"
TServerBranch ==
    /\ TFrame
    /\ t_pc = "branch"
    /\ IF t_is_server
       THEN /\ t_state' = "WAITING_FOR_NEW_KEYS"
            /\ t_events' = Append(t_events, SetState("WAITING_FOR_NEW_KEYS"))
            /\ t_pc' = "cb_file"
            /\ UNCHANGED t_ret
       ELSE /\ TReturn("True")
            /\ UNCHANGED <<t_state, t_events>>
    /\ UNCHANGED <<t_is_server, t_cb, t_mac, t_message, t_calls>>

\* _destroy_keys: "if self.on_new_file_generated: self.on_new_file_generated()",
\* then handle_compromised_signal returns True
TOnNewFileGenerated ==
    /\ TFrame
    /\ t_pc = "cb_file"
    /\ IF t_cb.on_new_file_generated
       THEN /\ t_events' = Append(t_events, Invoke("on_new_file_generated"))
            /\ \E raises \in BOOLEAN : TReturn(IF raises THEN "False" ELSE "True")
       ELSE /\ TReturn("True")
            /\ UNCHANGED t_events
    /\ UNCHANGED <<t_is_server, t_cb, t_mac, t_state, t_message, t_calls>>

TNext ==
    \/ THandle
    \/ TDestroyKeys
    \/ TOnKeysDestroyed
    \/ TServerBranch
    \/ TOnNewFileGenerated

----------------------------------------------------------------------------
(* nat_detection.py: NATDetector.detect and get_hole_punch_strategy *)

\* what no step of the detector touches
AFrame == UNCHANGED <<cvars, hvars, wvars, kvars, rvars, svars, dvars, vvars, gvars, ovars, fvars, pvars, nvars, tvars, evars, mvars>>

\* the members of NATType
NATTypes == {"UNKNOWN", "OPEN", "FULL_CONE", "RESTRICTED_CONE", "PORT_RESTRICTED",
             "SYMMETRIC", "BLOCKED"}
\* "127.0.0.1", the host's own address and an address of its NAT
Loopback == 1
HostIp == 2
NatIp == 3
\* what STUNClient.get_public_address returns: None (NoAddr) or (public_ip, public_port)
StunResponses == {NoAddr} \cup {[ip |-> i, port |-> q] : i \in {HostIp, NatIp}, q \in 1..2}
\* what _get_local_addresses returns: "127.0.0.1", and the host's address unless
\* the lookup raised
LocalAddresses == {{Loopback}, {Loopback, HostIp}}

\* the dictionary literal of get_hole_punch_strategy; success_rate in hundredths
strategies ==
    [nat_type \in NATTypes \ {"UNKNOWN"} |->
       CASE nat_type = "OPEN" ->
              [description |-> "Direct connection possible", simultaneous |-> FALSE,
               timeout |-> 10, retries |-> 3, success_rate |-> 100]
         [] nat_type = "FULL_CONE" ->
              [description |-> "Easy hole punching", simultaneous |-> TRUE,
               timeout |-> 15, retries |-> 5, success_rate |-> 95]
         [] nat_type = "RESTRICTED_CONE" ->
              [description |-> "Standard hole punching", simultaneous |-> TRUE,
               timeout |-> 30, retries |-> 10, success_rate |-> 90]
         [] nat_type = "PORT_RESTRICTED" ->
              [description |-> "Requires precise timing", simultaneous |-> TRUE,
               timeout |-> 45, retries |-> 15, success_rate |-> 85]
         [] nat_type = "SYMMETRIC" ->
              [description |-> "Difficult, may need TURN", simultaneous |-> TRUE,
               timeout |-> 60, retries |-> 20, success_rate |-> 40,
               turn_fallback |-> TRUE]
         [] nat_type = "BLOCKED" ->
              [description |-> "Connection blocked", simultaneous |-> FALSE,
               timeout |-> 0, retries |-> 0, success_rate |-> 0]]

NoStrategy == [description |-> ""]
Returned(nat_type, value) ==
    [called |-> TRUE, nat_type |-> nat_type, raised |-> "none", value |-> value]
Raised(nat_type, kind) ==
    [called |-> TRUE, nat_type |-> nat_type, raised |-> kind, value |-> NoStrategy]
NotCalled == [called |-> FALSE, nat_type |-> "none", raised |-> "none", value |-> NoStrategy]

\* d[key]: KeyError unless the key is in the dictionary
HasKey(d, key) == key \in DOMAIN d
\* strategies.get(nat_type, strategies[NATType.UNKNOWN]): the default is an
\* argument, evaluated before get is called
get_hole_punch_strategy(nat_type) ==
    IF ~HasKey(strategies, "UNKNOWN") THEN Raised(nat_type, "KeyError")
    ELSE IF HasKey(strategies, nat_type) THEN Returned(nat_type, strategies[nat_type])
    ELSE Returned(nat_type, strategies["UNKNOWN"])

AInit ==
    /\ a_local \in LocalAddresses
    /\ a_pc = "idle"
    /\ a_probes = <<>>
    /\ a_nat = "none"
    /\ a_strategy = NotCalled
    /\ a_calls = 0
\* a host whose address lookup succeeded, before any detection
AQuiet ==
    /\ a_local = {Loopback, HostIp}
    /\ a_pc = "idle"
    /\ a_probes = <<>>
    /\ a_nat = "none"
    /\ a_strategy = NotCalled
    /\ a_calls = 0

\* `return NATType.X` of detect
ADetected(nat_type) ==
    /\ a_nat' = nat_type
    /\ a_pc' = "detected"

\* detect, tests 1 and 2: the first probe and the local addresses
ADetect ==
    /\ AFrame
    /\ a_pc = "idle"
    /\ a_calls < MaxDetects
    /\ a_calls' = a_calls + 1
    /\ \E public_addr \in StunResponses :
        /\ a_probes' = <<public_addr>>
        /\ IF public_addr = NoAddr THEN ADetected("BLOCKED")
           ELSE IF public_addr.ip \in a_local THEN ADetected("OPEN")
           ELSE a_pc' = "addr1" /\ a_nat' = "none"
    /\ UNCHANGED <<a_local, a_strategy>>

\* _check_mapping_consistency, first get_public_address: "blocked" when it fails,
\* which detect takes like "consistent"
AMappingFirst ==
    /\ AFrame
    /\ a_pc = "addr1"
    /\ \E addr1 \in StunResponses :
        /\ a_probes' = Append(a_probes, addr1)
        /\ IF addr1 = NoAddr THEN ADetected("RESTRICTED_CONE")
           ELSE a_pc' = "addr2" /\ UNCHANGED a_nat
    /\ UNCHANGED <<a_local, a_strategy, a_calls>>

\* _check_mapping_consistency, second get_public_address on a new socket, the
\* comparison of the ports, and the return of detect
AMappingSecond ==
    /\ AFrame
    /\ a_pc = "addr2"
    /\ \E addr2 \in StunResponses :
        LET addr1 == a_probes[2]
            consistency == IF addr2 = NoAddr THEN "unstable"
                           ELSE IF addr1.port = addr2.port THEN "consistent"
                           ELSE "symmetric"
        IN  /\ a_probes' = Append(a_probes, addr2)
            /\ IF consistency = "symmetric" THEN ADetected("SYMMETRIC")
               ELSE ADetected("RESTRICTED_CONE")
    /\ UNCHANGED <<a_local, a_strategy, a_calls>>

\* ClawChatClient.detect_nat: get_hole_punch_strategy of what detect returned
ADetectNatStrategy ==
    /\ AFrame
    /\ a_pc = "detected"
    /\ a_strategy' = get_hole_punch_strategy(a_nat)
    /\ a_pc' = "idle"
    /\ UNCHANGED <<a_local, a_probes, a_nat, a_calls>>

\* get_hole_punch_strategy called with any member of NATType
AGetStrategy ==
    /\ AFrame
    /\ a_pc = "idle"
    /\ \E nat_type \in NATTypes : a_strategy' = get_hole_punch_strategy(nat_type)
    /\ UNCHANGED <<a_local, a_pc, a_probes, a_nat, a_calls>>

ANext ==
    \/ ADetect
    \/ AMappingFirst
    \/ AMappingSecond
    \/ ADetectNatStrategy
    \/ AGetStrategy

----------------------------------------------------------------------------
(* encryption.py: the exceptions of decrypt_packet and decrypt_file *)

\* what no decrypt call of this scenario touches
EFrame == UNCHANGED <<cvars, hvars, wvars, kvars, rvars, svars, dvars, vvars, gvars, ovars, fvars, pvars, nvars, tvars, avars, mvars>>

\* decrypt_packet gets as far as AESGCM(key).decrypt: the keys are set and the
\* length test has let the payload through
reaches_aesgcm(session_keys, ciphertext) ==
    session_keys # NoKeys /\ Len(ciphertext) >= MinPacketLen

\* one call: the function, what was done to its input, the input's length
\* (nonce, ciphertext and tag together) and what came of it
Outcome(fn, cause, length, out, aes_called) ==
    [fn |-> fn, cause |-> cause, len |-> length, ok |-> out.ok, err |-> out.err,
     aes_called |-> aes_called]

EInit == e_seen = {}

\* decrypt_packet on a packet of encrypt_packet: under another key set, with one
\* bit changed, or cut short
EDecryptPacket ==
    /\ EFrame
    /\ Cardinality(e_seen) < MaxFailures
    /\ \E made \in KeySets, plaintext \in Plaintexts, nid \in NonceIds :
        LET packet == encrypt_packet(made, generate_nonce(nid, NonceLen), plaintext, <<>>).data
            Call(cause, session_keys, ciphertext) ==
                e_seen' = e_seen \cup
                    {Outcome("decrypt_packet", cause, Len(ciphertext),
                             decrypt_packet(session_keys, ciphertext, <<>>),
                             reaches_aesgcm(session_keys, ciphertext))}
        IN  \/ \E held \in KeySets \ {made} : Call("wrong key", held, packet)
            \/ \E pos \in 1..Len(packet), bit \in Bits :
                 Call("corrupted", made, [packet EXCEPT ![pos] = FlipBit(@, bit)])
            \/ \E n \in 0..(MinPacketLen - 1) :
                 Call("short", made, SubSeq(packet, 1, n))

\* decrypt_file on a package of encrypt_file: under another password, with one
\* bit of ciphertext or tag changed, or with part of the tag missing
EDecryptFile ==
    /\ EFrame
    /\ Cardinality(e_seen) < MaxFailures
    /\ \E plaintext \in Plaintexts, password \in FilePasswords :
        LET package == encrypt_file(plaintext, password, Pbkdf2Iterations, 1)
            ciphertext == base64_decode(package.ciphertext)
            tag == base64_decode(package.tag)
            Call(cause, altered, given) ==
                e_seen' = e_seen \cup
                    {Outcome("decrypt_file", cause,
                             Len(base64_decode(altered.iv))
                               + Len(base64_decode(altered.ciphertext))
                               + Len(base64_decode(altered.tag)),
                             decrypt_file(altered, given), TRUE)}
        IN  \/ \E given \in FilePasswords \ {password} : Call("wrong key", package, given)
            \/ \E pos \in 1..Len(tag), bit \in Bits :
                 Call("corrupted",
                      [package EXCEPT !.tag = base64_encode([tag EXCEPT ![pos] = FlipBit(@, bit)])],
                      password)
            \/ \E pos \in 1..Len(ciphertext), bit \in Bits :
                 Call("corrupted",
                      [package EXCEPT !.ciphertext =
                           base64_encode([ciphertext EXCEPT ![pos] = FlipBit(@, bit)])],
                      password)
            \/ \E n \in 0..(TagLen - 1) :
                 Call("short", [package EXCEPT !.tag = base64_encode(SubSeq(tag, 1, n))],
                      password)

ENext ==
    \/ EDecryptPacket
    \/ EDecryptFile

----------------------------------------------------------------------------
(* messages.py: Message, to_bytes and from_bytes back *)

\* what no step of this scenario touches
MFrame == UNCHANGED <<cvars, hvars, wvars, kvars, rvars, svars, dvars, vvars, gvars, ovars, fvars, pvars, nvars, tvars, avars, evars>>

\* the largest length struct.pack('B', n) takes
MaxIdByte == 255
\* message_id.encode('utf-8') of a caller's id of n bytes; x tells ids apart
IdBytes(n, x) == [i \in 1..n |-> Atom(ToString(<<"id", x, i>>))]
\* the ids, timestamps and clock readings of the scenario: none given ("" and
\* 0), short, of the largest length that fits and one byte longer
TripIds == {IdBytes(n, x) : n \in {0, 1, MaxIdByte, MaxIdByte + 1}, x \in 1..2}
TripTimes == {0} \cup MessageTimes

\* Message(...) followed by __post_init__, with the clock and the random source
\* made explicit
post_init(msg_type, payload, timestamp, message_id, now, rid) ==
    [msg_type |-> msg_type, payload |-> payload,
     timestamp |-> IF timestamp = 0 THEN now ELSE timestamp,
     message_id |-> IF message_id = <<>> THEN token_hex(rid, MessageIdBytes)
                    ELSE message_id]

NotTripped == [called |-> FALSE, raised |-> "none", msg |-> NoMessage]
TripRaised(kind) == [called |-> TRUE, raised |-> kind, msg |-> NoMessage]
TripReturned(msg) == [called |-> TRUE, raised |-> "none", msg |-> msg]

MInit ==
    /\ m_msg = NoMessage
    /\ m_back = NotTripped

\* a caller builds a Message
MCreate ==
    /\ MFrame
    /\ m_msg = NoMessage
    /\ \E msg_type \in FrameTypes, payload \in Payloads, timestamp \in TripTimes,
          message_id \in TripIds, now \in MessageTimes :
         m_msg' = post_init(msg_type, payload, timestamp, message_id, now, <<"made", 1>>)
    /\ m_back' = NotTripped

\* Message.from_bytes(m.to_bytes()): struct.pack raises on an id longer than
\* 255 bytes; from_bytes ends in cls(...), which runs __post_init__ again
MRoundTrip ==
    /\ MFrame
    /\ m_msg # NoMessage
    /\ ~m_back.called
    /\ \E now \in MessageTimes :
         m_back' =
           IF Len(m_msg.message_id) > MaxIdByte THEN TripRaised("struct.error")
           ELSE LET parsed == from_bytes(to_bytes(m_msg))
                IN  IF ~parsed.ok THEN TripRaised("Exception")
                    ELSE TripReturned(post_init(parsed.msg.msg_type, parsed.msg.payload,
                                                parsed.msg.timestamp, parsed.msg.message_id,
                                                now, <<"parsed", 1>>))
    /\ UNCHANGED m_msg

MNext ==
    \/ MCreate
    \/ MRoundTrip

----------------------------------------------------------------------------
(* Specifications: each scenario runs on its own, the others stay as constructed *)

\* the hole punching peers as constructed, both holding the same secret
HQuiet == HInit /\ h_secret = [p \in Peers |-> Token32(<<"secret", 1>>)]

\* no buffer is parsed
FQuiet == f_data = <<>> /\ f_parsed = NotParsed

\* the validity scenario at rest: one fixed window
VQuiet ==
    VInit /\ v_file = [NoSecurityFile EXCEPT !.valid_from = Epoch, !.valid_until = Epoch]

vars == <<cvars, hvars, wvars, kvars, rvars, svars, dvars, vvars, gvars, ovars, fvars, pvars, nvars, tvars, avars, evars, mvars>>

CryptoInit == CInit /\ HQuiet /\ WInit /\ KInit /\ RInit /\ SInit /\ DInit /\ VQuiet /\ GInit /\ OInit /\ FQuiet /\ PInit /\ NInit /\ TQuiet /\ AQuiet /\ EInit /\ MInit
SpecCrypto == CryptoInit /\ [][CNext]_vars

PunchInit == HInit /\ CInit /\ WInit /\ KInit /\ RInit /\ SInit /\ DInit /\ VQuiet /\ GInit /\ OInit /\ FQuiet /\ PInit /\ NInit /\ TQuiet /\ AQuiet /\ EInit /\ MInit
SpecPunch == PunchInit /\ [][HNext]_vars

WireInit == WInit /\ CInit /\ HQuiet /\ KInit /\ RInit /\ SInit /\ DInit /\ VQuiet /\ GInit /\ OInit /\ FQuiet /\ PInit /\ NInit /\ TQuiet /\ AQuiet /\ EInit /\ MInit
SpecWire == WireInit /\ [][WNext]_vars

CompInit == KInit /\ CInit /\ HQuiet /\ WInit /\ RInit /\ SInit /\ DInit /\ VQuiet /\ GInit /\ OInit /\ FQuiet /\ PInit /\ NInit /\ TQuiet /\ AQuiet /\ EInit /\ MInit
SpecComp == CompInit /\ [][KNext]_vars

RotInit == RInit /\ CInit /\ HQuiet /\ WInit /\ KInit /\ SInit /\ DInit /\ VQuiet /\ GInit /\ OInit /\ FQuiet /\ PInit /\ NInit /\ TQuiet /\ AQuiet /\ EInit /\ MInit
SpecRot == RotInit /\ [][RNext]_vars

SessInit == SInit /\ CInit /\ HQuiet /\ WInit /\ KInit /\ RInit /\ DInit /\ VQuiet /\ GInit /\ OInit /\ FQuiet /\ PInit /\ NInit /\ TQuiet /\ AQuiet /\ EInit /\ MInit
SpecSess == SessInit /\ [][SNext]_vars

DeriveInit == DInit /\ CInit /\ HQuiet /\ WInit /\ KInit /\ RInit /\ SInit /\ VQuiet /\ GInit /\ OInit /\ FQuiet /\ PInit /\ NInit /\ TQuiet /\ AQuiet /\ EInit /\ MInit
SpecDerive == DeriveInit /\ [][DNext]_vars

ValidInit == VInit /\ CInit /\ HQuiet /\ WInit /\ KInit /\ RInit /\ SInit /\ DInit /\ GInit /\ OInit /\ FQuiet /\ PInit /\ NInit /\ TQuiet /\ AQuiet /\ EInit /\ MInit
SpecValid == ValidInit /\ [][VNext]_vars

RegenInit == GInit /\ CInit /\ HQuiet /\ WInit /\ KInit /\ RInit /\ SInit /\ DInit /\ VQuiet /\ OInit /\ FQuiet /\ PInit /\ NInit /\ TQuiet /\ AQuiet /\ EInit /\ MInit
SpecRegen == RegenInit /\ [][GNext]_vars

RejectInit == KStartDefective /\ CInit /\ HQuiet /\ WInit /\ RInit /\ SInit /\ DInit /\ VQuiet /\ GInit /\ OInit /\ FQuiet /\ PInit /\ NInit /\ TQuiet /\ AQuiet /\ EInit /\ MInit
SpecReject == RejectInit /\ [][KRejectNext]_vars

OnceInit == OInit /\ KInit /\ CInit /\ HQuiet /\ WInit /\ RInit /\ SInit /\ DInit /\ VQuiet /\ GInit /\ FQuiet /\ PInit /\ NInit /\ TQuiet /\ AQuiet /\ EInit /\ MInit
SpecOnce == OnceInit /\ [][ONext]_vars

\* a thread that can take its next step: it is not asleep and not blocked in recvfrom
LoopReady(p) ==
    \/ h_pc[p] \in {"send", "recv", "ltop"}
    \/ h_pc[p] = "lrecv" /\ (h_inbox[p] # <<>> \/ h_now - h_recv_at[p] >= RecvTimeout)
\* a step of p's loop, seen through p's position: every such step moves h_pc[p]
HLoopStep(p) ==
    /\ LoopReady(p)
    /\ \E pc \in {"send", "recv", "sleep", "ltop", "lrecv", "done"} \ {h_pc[p]} :
           h_pc' = [h_pc EXCEPT ![p] = pc]
\* the loop of p, and the two facts that make HLoopStep stand for it
HLoop(p) ==
    HPunchSend(p) \/ HPunchRecv(p) \/ HListenTop(p) \/ HListenRecv(p) \/ HListenRecvTimeout(p)
ReadyIsEnabled == \A p \in Peers : LoopReady(p) <=> ENABLED <<HLoop(p)>>_vars
StepIsLoop == [][\A p \in Peers : HLoopStep(p) <=> <<HLoop(p)>>_vars]_vars
\* each calling thread keeps running and the clock keeps moving
PunchLiveInit == HQuiet /\ CInit /\ WInit /\ KInit /\ RInit /\ SInit /\ DInit /\ VQuiet /\ GInit /\ OInit /\ FQuiet /\ PInit /\ NInit /\ TQuiet /\ AQuiet /\ EInit /\ MInit
SpecPunchLive ==
    PunchLiveInit /\ [][HNext]_vars /\ WF_vars(HTick) /\ \A p \in Peers : WF_h_pc(HLoopStep(p))

\* punch() and listen_for_punch() with datagrams that may be lost
SpecPunchLossy == PunchLiveInit /\ [][HLossyNext]_vars

FrameInit == FInit /\ CInit /\ HQuiet /\ WInit /\ KInit /\ RInit /\ SInit /\ DInit /\ VQuiet /\ GInit /\ OInit /\ PInit /\ NInit /\ TQuiet /\ AQuiet /\ EInit /\ MInit
SpecFrame == FrameInit /\ [][FNext]_vars

FileInit == PInit /\ CInit /\ HQuiet /\ WInit /\ KInit /\ RInit /\ SInit /\ DInit /\ VQuiet /\ GInit /\ OInit /\ FQuiet /\ NInit /\ TQuiet /\ AQuiet /\ EInit /\ MInit
SpecFile == FileInit /\ [][PNext]_vars

NonceInit == NInit /\ CInit /\ HQuiet /\ WInit /\ KInit /\ RInit /\ SInit /\ DInit /\ VQuiet /\ GInit /\ OInit /\ FQuiet /\ PInit /\ TQuiet /\ AQuiet /\ EInit /\ MInit
SpecNonce == NonceInit /\ [][NNext]_vars

HandlerInit == TInit /\ CInit /\ HQuiet /\ WInit /\ KInit /\ RInit /\ SInit /\ DInit /\ VQuiet /\ GInit /\ OInit /\ FQuiet /\ PInit /\ NInit /\ AQuiet /\ EInit /\ MInit
SpecHandler == HandlerInit /\ [][TNext]_vars


DetectInit == AInit /\ CInit /\ HQuiet /\ WInit /\ KInit /\ RInit /\ SInit /\ DInit /\ VQuiet /\ GInit /\ OInit /\ FQuiet /\ PInit /\ NInit /\ TQuiet /\ EInit /\ MInit
SpecDetect == DetectInit /\ [][ANext]_vars


FailInit == EInit /\ CInit /\ HQuiet /\ WInit /\ KInit /\ RInit /\ SInit /\ DInit /\ VQuiet /\ GInit /\ OInit /\ FQuiet /\ PInit /\ NInit /\ TQuiet /\ AQuiet /\ MInit
SpecFail == FailInit /\ [][ENext]_vars


TripInit == MInit /\ CInit /\ HQuiet /\ WInit /\ KInit /\ RInit /\ SInit /\ DInit /\ VQuiet /\ GInit /\ OInit /\ FQuiet /\ PInit /\ NInit /\ TQuiet /\ AQuiet /\ EInit
SpecTrip == TripInit /\ [][MNext]_vars

\* the regeneration loop with time passing only in its sleeps
SpecRegenTimed == RegenInit /\ [][GTimedNext]_vars

\* the last call was decrypt_packet on the packet exactly as encrypt_packet made it,
\* with the key set and the associated data of the encryption
CSameKeyUnaltered ==
    /\ c_res.op = "decrypt"
    /\ c_flipped = <<>>
    /\ c_res.keys = c_enc_keys
    /\ c_res.aad = c_aad

\* C9: decrypt_packet(encrypt_packet(P, A), A) under the same installed key set
\* returns exactly P, for every plaintext P (the empty one included), every
\* associated data A (None included) and every key set.
C9_PacketRoundTrip ==
    CSameKeyUnaltered => (c_res.out.ok /\ c_res.out.data = c_pt)

C9_Witness ==
    /\ CSameKeyUnaltered
    /\ c_res.out.ok
    /\ Len(c_pt) = MaxPtLen
    /\ c_aad # <<>>

\* C10: when one bit of the nonce, the ciphertext or the tag of a packet made by
\* encrypt_packet has been changed, decrypt_packet raises AuthenticationError and
\* returns no plaintext, whatever key set and associated data the receiver uses.
C10_TamperRejected ==
    (c_res.op = "decrypt" /\ c_flipped # <<>>)
        => (~c_res.out.ok /\ c_res.out.err = "AuthenticationError"
            /\ c_res.out.data = <<>>)

C10_Witness ==
    /\ c_res.op = "decrypt"
    /\ c_flipped # <<>>
    /\ c_flipped[1] > NonceLen + Len(c_pt)
    /\ c_res.keys = c_enc_keys
    /\ c_res.aad = c_aad
    /\ c_res.out.err = "AuthenticationError"

----------------------------------------------------------------------------
(* Hole punching claims *)

BothStarted == \A p \in Peers : h_pc[p] # "idle"
\* the instant from which both calls are active (both sockets bound)
ActiveAt == IF h_start[1] > h_start[2] THEN h_start[1] ELSE h_start[2]
\* both calls are still inside their timeout one retry interval later
Overlap == \A p \in Peers : ActiveAt + RetryInterval + SleepStep < h_start[p] + PunchTimeout
BothConnected == \A p \in Peers : h_state[p] = "CONNECTED" /\ h_result[p].success

\* C1: two peers whose key sets come from derive_session_keys with different
\* shared secrets (same connection_id and timestamp) never accept each other's
\* PUNCH / PUNCH_ACK packets, so neither reaches CONNECTED.
C1_NoConnectWithoutSecret ==
    h_secret[1] # h_secret[2] => \A p \in Peers : h_state[p] # "CONNECTED"

\* C7: one peer in punch() and the other in listen_for_punch(), or both in punch(),
\* with matching session keys and no packet loss: one retry interval (and the 10 ms
\* poll that reads the answer) after both are active, both calls have returned
\* success with state CONNECTED.
C7_Convergence ==
    ( /\ BothStarted
      /\ \E p \in Peers : h_mode[p] = "punch"
      /\ h_keys[1] = h_keys[2]
      /\ Overlap
      /\ h_now > ActiveAt + RetryInterval + SleepStep )
    => BothConnected

----------------------------------------------------------------------------
(* Claims about the datagram format *)

\* nonce(12 bytes) followed by the AEAD ciphertext with its tag, under the session keys
IsNonceAead(data) == decrypt_packet(WKeys, data, <<>>).ok
\* the reply is the server's PUNCH_ACK Message
IsPunchAckReply(data) ==
    LET r == decrypt_packet(WKeys, data, <<>>)
    IN  r.ok /\ from_bytes(r.data).ok
             /\ from_bytes(r.data).msg.msg_type = MessageType_PUNCH_ACK

\* C8: every datagram put on a socket is nonce(12) followed by the AEAD
\* ciphertext with tag: the server loop, which applies decrypt_packet to the
\* whole datagram, accepts a punch packet made under matching keys, and the
\* puncher accepts the server's PUNCH_ACK reply.
C8_DatagramFormat ==
    /\ \A i \in 1..Len(w_to_server) : IsNonceAead(w_to_server[i].data)
    /\ \A i \in 1..Len(w_to_client) : IsNonceAead(w_to_client[i].data)
    /\ (w_srv.handled /\ IsPunchPacket(w_srv.data)) => w_srv.accepted
    /\ (w_cli.handled /\ IsPunchAckReply(w_cli.data)) => w_cli.packet_type = PKT_PUNCH_ACK
----------------------------------------------------------------------------
(* Claims about the Compromised Protocol *)

DestroyedStates == {"KEYS_DESTROYED", "WAITING_FOR_NEW_KEYS"}
MacKeys == {KKeys.mac_key, ForgerKey}
\* the signature of the message as a handler holding mac_key would make it
SignedUnder(mac_key, message) ==
    message.signature =
        _sign_signal(mac_key, signal_data_of(SIGNAL_STRING, message.connection_id,
                                             message.timestamp))
Stale(c) == Abs(c.now - c.message.timestamp) > ReplayWindow

\* C3: the client created a signal, the server accepted it and emitted its
\* ACK; the client, still in SIGNAL_SENT, accepts that ACK and destroys its
\* keys, so both handlers end with keys destroyed.
C3_HandshakeCompletes ==
    ( /\ k_ack_call.handled
      /\ k_ack_call.message.type = "compromised_ack"
      /\ k_ack_call.state = "SIGNAL_SENT" )
        => /\ k_ack_call.accepted
           /\ \A p \in KPeers : k_state[p] \in DestroyedStates

\* C5: once the Compromised Protocol has destroyed keys on a peer, every later
\* encrypt_packet on that peer's CryptoManager fails, so no packet is
\* encrypted with the pre-destruction session keys.
C5_DestroyedKeysUnusable ==
    \A e \in k_sent : e.state \in DestroyedStates => ~e.ok

\* C6: handle_compromised_signal rejects a signal whose timestamp is more than
\* 300 s away from now, and rejects a signal signed under a mac_key that is not
\* the handler's, whatever its timestamp.
C6_ReplayForgeryRejected ==
    \A c \in k_sig_calls :
        /\ Stale(c) => ~c.accepted
        /\ \A k \in MacKeys \ {c.mac_key} : SignedUnder(k, c.message) => ~c.accepted

\* a signal the client signed was handled too late, and a fresh signal of the
\* forger was handled, by a server holding the original mac_key
C6_Witness ==
    \E c1, c2 \in k_sig_calls :
        /\ c1.mac_key = KKeys.mac_key /\ SignedUnder(KKeys.mac_key, c1.message)
        /\ Stale(c1) /\ ~c1.accepted
        /\ c2.mac_key = KKeys.mac_key /\ SignedUnder(ForgerKey, c2.message)
        /\ ~Stale(c2) /\ ~c2.accepted
----------------------------------------------------------------------------
(* Claims about key rotation *)

\* the server has rotated, and the last packet it handled was encrypted before
\* that rotation under the key set the rotation retired
PreRotationPacket ==
    /\ r_res.handled
    /\ r_history # <<>>
    /\ r_res.keys = r_history[Len(r_history)].keys
    /\ r_res.sent_at < r_history[Len(r_history)].timestamp
    /\ r_res.at >= r_history[Len(r_history)].timestamp

\* C4: a packet encrypted under the pre-rotation key set and delivered after
\* the rotation but before grace_period_end still decrypts; delivered after
\* grace_period_end it fails to decrypt.
C4_RotationGrace ==
    PreRotationPacket =>
        /\ (r_res.at < r_rot.grace_period_end => r_res.ok)
        /\ (r_res.at > r_rot.grace_period_end => ~r_res.ok)
\* the call on p has returned a failure
ReturnedFailure(p) == h_pc[p] = "done" /\ ~h_result[p].success

\* what a failed call leaves behind
FailedProperly(p) ==
    /\ h_state[p] = "FAILED"
    /\ ~h_sock[p]
    /\ h_result[p].returned
    /\ ~h_result[p].socket
    /\ h_result[p].peer_address = NoAddr
    /\ h_result[p].attempts = h_attempts[p]
    /\ h_result[p].error_message =
           (IF h_mode[p] = "punch" THEN "Timeout" ELSE "Listen timeout")
    /\ h_now - h_start[p] >= PunchTimeout

\* the call on p returned success for a packet that came in `late` or less after
\* the timeout had elapsed
ReturnedSuccess(p, late) ==
    /\ h_pc[p] = "done"
    /\ h_result[p].success
    /\ h_state[p] = "CONNECTED"
    /\ h_result[p].latency < PunchTimeout + late

\* after a failure the call stays returned, the socket stays closed, nothing is sent
SilentAfterFailure ==
    \A p \in Peers :
        ReturnedFailure(p) =>
            /\ h_pc'[p] = "done"
            /\ ~h_sock'[p]
            /\ Len(h_inbox'[Other(p)]) <= Len(h_inbox[Other(p)])

\* from some point on no call is still running
AllReturned == <>[](\A p \in Peers : h_pc[p] \in {"idle", "done"})

\* C17 as stated: punch() and listen_for_punch() always return; when no acceptable
\* PUNCH_ACK (PUNCH) arrived before the timeout elapsed, whatever else arrived,
\* the state is FAILED, the socket is closed and cleared, the result has
\* success = false with the error reason and the attempt count, and the
\* component sends nothing after that.
C17_AsStated ==
    /\ [](\A p \in Peers :
            h_pc[p] = "done" => (ReturnedSuccess(p, 0) \/ FailedProperly(p)))
    /\ [][SilentAfterFailure]_vars
    /\ AllReturned

\* C17: punch() and listen_for_punch() always return. A call that did not accept
\* its PUNCH_ACK (PUNCH) returns only after the timeout with state FAILED, the
\* socket closed and cleared, a result with success = false, the error reason
\* and the attempt count, and sends nothing after that. punch() accepts only
\* before its timeout; listen_for_punch() also accepts a PUNCH that arrives
\* while its last recvfrom, begun before the timeout, still waits (up to 1.0 s).
C17_AlwaysReturns ==
    /\ [](\A p \in Peers :
            h_pc[p] = "done" =>
                \/ ReturnedSuccess(p, IF h_mode[p] = "listen" THEN RecvTimeout ELSE 0)
                \/ ~h_result[p].success /\ FailedProperly(p))
    /\ [][SilentAfterFailure]_vars
    /\ AllReturned

\* a punch() timed out after several attempts although its peer's datagrams
\* reached it: the peer is connected
C17_Witness ==
    \E p \in Peers :
        /\ ReturnedFailure(p)
        /\ h_mode[p] = "punch"
        /\ h_result[p].attempts > 1
        /\ h_state[Other(p)] = "CONNECTED"

----------------------------------------------------------------------------
(* Claims about the bootstrap *)

\* the server has started, and the client has loaded the file that start
\* generated and has run connect()
BothDerived == s_server.started /\ s_client.connected /\ s_client.file = 1

\* C2: after the server generated a security file and started, and the client
\* loaded that file and ran connect(), both called derive_session_keys with the
\* same (shared_secret, connection_id, timestamp), hold identical key sets, and
\* built their CompromisedProtocolHandler with the same connection_id.
C2_SameTriple ==
    BothDerived =>
        /\ s_server.shared_secret = s_client.shared_secret
        /\ s_server.connection_id = s_client.connection_id
        /\ s_server.timestamp = s_client.timestamp
        /\ s_server.keys = s_client.keys
        /\ s_server.handler_connection_id = s_client.handler_connection_id

----------------------------------------------------------------------------
(* Claims about key derivation *)

SameTriple(a, b) ==
    /\ a.shared_secret = b.shared_secret
    /\ a.connection_id = b.connection_id
    /\ a.timestamp = b.timestamp

KeyNames == {"encryption_key", "mac_key", "iv_key", "next_key_seed"}

C12_ExpiredNeverUsed ==
    (s_client.connected \/ s_client.punched)
        => is_valid(s_client.security_file, s_client.connect_at)

----------------------------------------------------------------------------
(* Claims about the validity window *)

\* C13: is_valid() returns true exactly when valid_from <= now < valid_until;
\* it returns false when valid_until <= now and when now < valid_from.
C13_ValidityWindow ==
    v_res.called =>
        /\ v_res.value = (v_file.valid_from <= v_now /\ v_now < v_file.valid_until)
        /\ (v_file.valid_until <= v_now => ~v_res.value)
        /\ (v_now < v_file.valid_from => ~v_res.value)

\* is_valid() was called at the very second the window closes
C13_Witness ==
    /\ v_res.called
    /\ ~v_res.value
    /\ v_file.valid_from < v_now
    /\ v_now = v_file.valid_until

----------------------------------------------------------------------------
(* Claims about auto-regeneration *)

\* C14: once mark_client_connected() has returned, the regeneration loop never
\* again calls generate_file, whatever the interleaving of the two threads.
C14_RegenerationStops == g_late = 0

----------------------------------------------------------------------------
(* Claims about rejected and repeated signals *)

\* this step is a handle_compromised_signal call that returned False
RejectedCall ==
    \E c \in k_sig_calls' \ k_sig_calls : ~c.accepted

\* C15: whenever handle_compromised_signal fails a check (type, version, signal
\* tag, connection_id, signature, timestamp outside the replay window, or a
\* missing field) it returns False, leaves state and mac_key as they were and
\* invokes neither on_keys_destroyed nor on_new_file_generated.
C15_RejectedIgnored ==
    [][RejectedCall => UNCHANGED <<k_state, k_mac, k_running, k_new_file, k_net, k_sent>>]_vars

\* the handler refused a signal that lacks its signature and a well-formed one
\* that arrived outside the replay window, and is still in its first state
C15_Witness ==
    /\ \E c \in k_sig_calls : ~c.accepted /\ c.message.signature = <<>>
    /\ \E c \in k_sig_calls :
           /\ ~c.accepted
           /\ c.message = Defective("none", c.message.reason)
           /\ c.now - c.message.timestamp > ReplayWindow
    /\ k_state[Server] = "NORMAL"

\* C16: over any sequence of delivered signals and ACKs, replays of a message
\* the handler already accepted included, a CompromisedProtocolHandler runs
\* _destroy_keys (and with it on_keys_destroyed) at most once.
C16_DestroyOnce == \A p \in KPeers : o_destroyed[p] <= 1

----------------------------------------------------------------------------
(* Claims about frame parsing *)

\* both length fields of the buffer lie inside it and claim no more than follows
DeclaredFits(data) ==
    /\ Len(data) >= 14
    /\ ByteVal(data[10]) # None
    /\ LET id_len == ByteVal(data[10])
       IN  /\ Len(data) >= 14 + id_len
           /\ unpack_I(Slice(data, 10 + id_len, 14 + id_len)) <= Len(data) - 14 - id_len

\* C18: parse_message (Message.from_bytes) rejects every buffer in which
\* id_length or payload_length exceeds the bytes that remain: a Message is
\* never returned for a buffer shorter than its length fields declare.
C18_LengthsValidated ==
    (f_parsed.called /\ f_parsed.msg # NoMessage) => DeclaredFits(f_data)

\* an id_length beyond the buffer's end is always rejected
IdLengthBeyondEndRejected ==
    (f_parsed.called /\ f_data \in ShortBuffers) => f_parsed.msg = NoMessage

----------------------------------------------------------------------------
(* Claims about file mode *)

\* decrypt_file raised DecryptionError: nothing of the plaintext came back
FileRejected == ~p_out.result.ok /\ p_out.result.data = <<>>
\* decrypt_file returned the plaintext given to encrypt_file
FileRecovered == p_out.result.ok /\ p_out.result.data = p_plain

\* C19 as stated: decrypt_file with another password, or with any altered
\* salt, nonce, ciphertext or tag, raises DecryptionError and returns no
\* plaintext; with the same password and an unaltered package it returns the
\* original plaintext.
C19_AsStated ==
    p_out.called =>
        IF p_out.password = p_password /\ p_altered = "none"
        THEN FileRecovered
        ELSE FileRejected

\* C19: decrypt_file with another password, or with a salt, a nonce or a byte
\* string ciphertext + tag that differs from what encrypt_file produced, raises
\* DecryptionError and returns no plaintext; with the same password and the same
\* salt, nonce and ciphertext + tag (wherever the two fields are split) it
\* returns the original plaintext.
C19_FailsClosed ==
    p_out.called =>
        IF p_out.password = p_password /\ p_altered \in {"none", "boundary"}
        THEN FileRecovered
        ELSE FileRejected

\* a package with a flipped bit was rejected under the right password, with a
\* plaintext that is not empty
C19_Witness ==
    /\ p_out.called
    /\ p_out.password = p_password
    /\ p_altered \in PackageFields
    /\ p_plain # <<>>
    /\ FileRejected

----------------------------------------------------------------------------
(* Claims about nonces *)

\* the nonce a packet of encrypt_packet starts with
NonceOf(packet) == Slice(packet, 0, NonceLen)

----------------------------------------------------------------------------
(* Claims about the states and results of hole punching *)

\* the call of peer p has returned
Completed(p) == h_pc[p] = "done"

\* the datagram recvfrom hands to peer p next, and what it decrypts to
NextDatagram(p) == Head(h_inbox[p])
NextType(p) == _parse_packet(h_keys[p], NextDatagram(p).data)

\* peer p takes a datagram off its socket in this step
Receives(p) ==
    /\ h_pc[p] \in {"recv", "lrecv"}
    /\ h_inbox[p] # <<>>
    /\ h_pc'[p] # h_pc[p]

\* this step queues one datagram for peer q, sent by p, that decrypts to packet_type
Replies(p, q, packet_type) ==
    /\ Len(h_inbox'[q]) = Len(h_inbox[q]) + 1
    /\ LET dgram == h_inbox'[q][Len(h_inbox'[q])]
       IN  /\ dgram.addr = AddrOf(p)
           /\ _parse_packet(h_keys[q], dgram.data) = packet_type

\* a completed call went IDLE -> PREPARING -> PUNCHING -> CONNECTED or FAILED, and
\* its result is a success with socket and peer address exactly when CONNECTED
TrailAndResult ==
    \A p \in Peers :
        Completed(p) =>
            /\ h_trail[p] \in {<<"PREPARING", "PUNCHING", "CONNECTED">>,
                               <<"PREPARING", "PUNCHING", "FAILED">>}
            /\ h_state[p] = h_trail[p][Len(h_trail[p])]
            /\ h_result[p].returned
            /\ h_result[p].success <=> h_state[p] = "CONNECTED"
            /\ h_result[p].socket <=> h_state[p] = "CONNECTED"
            /\ h_result[p].peer_address # NoAddr <=> h_state[p] = "CONNECTED"
            /\ h_sock[p] <=> h_result[p].socket

\* punch() becomes CONNECTED only in a step that receives a PUNCH_ACK; a PUNCH it
\* receives changes no state and is answered by a PUNCH_ACK to its source
PunchOnlyOnAck ==
    \A p \in Peers :
        h_mode[p] = "punch" =>
            /\ (h_state'[p] = "CONNECTED" /\ h_state[p] # "CONNECTED")
                  => (Receives(p) /\ NextType(p) = PKT_PUNCH_ACK)
            /\ (Receives(p) /\ NextType(p) = PKT_PUNCH)
                  => /\ h_state'[p] = h_state[p]
                     /\ h_result'[p] = h_result[p]
                     /\ h_pc'[p] = "sleep"
                     /\ LET q == NextDatagram(p).addr.ip
                        IN  h_sock[q] => Replies(p, q, PKT_PUNCH_ACK)

\* C21: every completed punch() or listen_for_punch() call went through PREPARING,
\* then PUNCHING, and ended in exactly one of CONNECTED or FAILED; its result has
\* success, a socket and a peer address exactly when the final state is CONNECTED;
\* punch() reaches CONNECTED only on a decrypted PUNCH_ACK, and a PUNCH it receives
\* only makes it send a PUNCH_ACK to the datagram's source
C21_TrailAndResult == [](TrailAndResult) /\ [][PunchOnlyOnAck]_vars

\* both calls have returned, a punch() as CONNECTED after answering a PUNCH, the
\* other as FAILED
C21_Witness ==
    \E p \in Peers :
        /\ h_mode[p] = "punch" /\ Completed(p) /\ h_state[p] = "CONNECTED"
        /\ h_result[p].peer_address = AddrOf(Other(p))
        /\ Completed(Other(p)) /\ h_state[Other(p)] = "FAILED"

\* a listener with expected_ip never becomes CONNECTED on, and never answers, a
\* datagram from another IP
IgnoresUnexpected ==
    \A p \in Peers :
        (/\ h_mode[p] = "listen"
         /\ h_expected[p] # 0
         /\ Receives(p)
         /\ NextDatagram(p).addr.ip # h_expected[p])
            => /\ h_state'[p] = h_state[p]
               /\ h_result'[p] = h_result[p]
               /\ h_pc'[p] = "ltop"
               /\ \A q \in Peers \ {p} : h_inbox'[q] = h_inbox[q]

\* the peer address a listener with expected_ip returns is at that IP
ReturnsExpected ==
    \A p \in Peers :
        (/\ h_mode[p] = "listen"
         /\ h_expected[p] # 0
         /\ Completed(p)
         /\ h_result[p].peer_address # NoAddr)
            => h_result[p].peer_address.ip = h_expected[p]

\* C22: given expected_ip, listen_for_punch never replies to and never reaches
\* CONNECTED on a datagram whose source IP differs from expected_ip, a correctly
\* encrypted PUNCH included, and the peer address it returns has IP expected_ip
C22_ExpectedIpOnly == [](ReturnsExpected) /\ [][IgnoresUnexpected]_vars

\* a listener expecting another IP has taken a correctly encrypted PUNCH of the
\* peer off its socket and is back at the top of its loop, still PUNCHING
C22_Witness ==
    \E p \in Peers :
        /\ h_mode[p] = "listen"
        /\ h_expected[p] = AddrOf(Stranger).ip
        /\ h_mode[Other(p)] = "punch"
        /\ h_last_send[Other(p)] > 0
        /\ h_pc[p] = "ltop"
        /\ h_attempts[p] > 0
        /\ h_now - h_recv_at[p] < RecvTimeout
        /\ h_inbox[p] = <<>>
        /\ h_state[p] = "PUNCHING"

----------------------------------------------------------------------------
(* Claims about the handler's states and callbacks *)

\* the callbacks among the given events that the handler was built with
Installed(events) ==
    SelectSeq(events, LAMBDA e : \/ e.kind = "state"
                                 \/ e.what = "on_keys_destroyed" /\ t_cb.on_keys_destroyed
                                 \/ e.what = "on_new_file_generated" /\ t_cb.on_new_file_generated)

\* what an accepting call does, in order, on a server's and on a client's handler
ServerCourse ==
    <<SetState("SIGNAL_RECEIVED"), SetState("KEYS_DESTROYED"), Invoke("on_keys_destroyed"),
      SetState("WAITING_FOR_NEW_KEYS"), Invoke("on_new_file_generated")>>
ClientCourse ==
    <<SetState("SIGNAL_RECEIVED"), SetState("KEYS_DESTROYED"), Invoke("on_keys_destroyed")>>

Accepted == t_pc = "idle" /\ t_ret = "True"

\* C23: a call of handle_compromised_signal that accepts has set SIGNAL_RECEIVED and
\* then KEYS_DESTROYED and invoked on_keys_destroyed once; on a server's handler it
\* has then set WAITING_FOR_NEW_KEYS and invoked on_new_file_generated once, and the
\* handler is left in that state; a client's handler is left in KEYS_DESTROYED, and
\* no call on it ever invokes on_new_file_generated
C23_AcceptCourse ==
    /\ Accepted =>
          /\ t_events = Installed(IF t_is_server THEN ServerCourse ELSE ClientCourse)
          /\ t_state = IF t_is_server THEN "WAITING_FOR_NEW_KEYS" ELSE "KEYS_DESTROYED"
    /\ ~t_is_server =>
          \A i \in 1..Len(t_events) : t_events[i] # Invoke("on_new_file_generated")

\* a server's handler built with both callbacks has accepted a signal
C23_Witness ==
    /\ Accepted
    /\ t_is_server
    /\ t_cb.on_keys_destroyed /\ t_cb.on_new_file_generated
    /\ t_state = "WAITING_FOR_NEW_KEYS"
    /\ Len(t_events) = Len(ServerCourse)

\* a signal the client created and signed, with the reason rewritten afterwards
ReasonRewritten(message) ==
    \E reason \in Reasons :
        LET signed == create_compromised_signal(KConnId, KKeys.mac_key, reason, Epoch)
        IN  /\ message = [signed EXCEPT !.reason = "rewritten"]
            /\ message.reason # signed.reason

\* C24: the signature binds signal tag, timestamp, connection_id and reason: a signal
\* whose reason was changed after signing is rejected by handle_compromised_signal
C24_ReasonBound ==
    (t_pc = "idle" /\ t_calls > 0 /\ ReasonRewritten(t_message)) => t_ret = "False"

----------------------------------------------------------------------------
(* Claims about the rotation message and the rotated keys *)

\* the server has rotated at least once
Rotated == r_history # <<>>
\* the server is between rotations and every KEY_ROTATION message it sent has
\* reached the client, one at least
NoticeDelivered == Rotated /\ r_pc = "loop" /\ r_seen > 0 /\ r_notice = {}

\* the given receive was of a datagram sent after the first rotation
SentAfterRotation(res) == res.handled /\ r_seen > 0 /\ res.rotations > 0

Notifies == r_pc = "loop" /\ r_pc' = "notified"
\* current_keys is replaced in this step
Replaces == r_pc = "notified" /\ r_pc' = "loop"

\* C26: the next key set is staged and the KEY_ROTATION message is sent
\* advance_notice (120 s) before rotation_due, strictly earlier than the instant
\* at which current_keys is replaced
C26_AdvanceNotice ==
    [][/\ Notifies => r_now + ADVANCE_NOTICE <= r_rot.rotation_due
       /\ Replaces => r_rot.next_keys # NoKeys /\ r_now >= r_rot.rotation_due]_vars

\* the KEY_ROTATION messages sent in this step
NoticesSent == r_notice' \ r_notice
\* the bytes of a byte string, as a set
Bytes(b) == {b[i] : i \in 1..Len(b)}

\* a KEY_ROTATION message goes out in the step that stages the next keys, with
\* current_keys, the key history and the CryptoManager's keys still as they were,
\* encrypted under those keys, carrying the staged keys, no byte of it in clear
SentUnderCurrent ==
    \A n \in NoticesSent :
        LET data == DataOf(n)
            opened == from_bytes(decrypt_packet(r_rot.current_keys, data, <<>>).data)
        IN  /\ Notifies
            /\ r_rot'.current_keys = r_rot.current_keys
            /\ r_history' = r_history
            /\ r_crypto' = r_crypto
            /\ n.keys = r_rot.current_keys
            /\ n.keys = r_crypto[Server]
            /\ n.rotations = Len(r_history)
            /\ opened.ok
            /\ opened.msg.msg_type = MessageType_KEY_ROTATION
            /\ opened.msg.payload.next_encryption_key =
                   base64_encode(r_rot'.next_keys.encryption_key)
            /\ Bytes(data) \cap Bytes(n.plaintext) = {}
            /\ ~decrypt_packet(NoKeys, data, <<>>).ok

Held(keys) ==
    \/ r_rot.current_keys = keys
    \/ r_rot.next_keys = keys
    \/ \E j \in 1..Len(r_history) : r_history[j].keys = keys

\* the key sets retired more than grace_period ago
RetiredLongAgo ==
    {r_history[i].keys : i \in {j \in 1..Len(r_history) :
                                    r_now > r_history[j].timestamp + GRACE_PERIOD}}

\* C28: once grace_period (300 s) has elapsed since a rotation, the key set it
\* retired is held nowhere in the KeyRotator: not as current or next keys and not
\* in the key history
C28_RetiredDiscarded == \A keys \in RetiredLongAgo : ~Held(keys)

\* the key set the last rotation retired
Retired == r_history[Len(r_history)].keys

\* C29: the key set a rotation installs differs in its encryption_key from the
\* set it retired, and the retired next_key_seed is not itself the encryption key
C29_KeyChaining ==
    (Rotated /\ r_pc = "loop") =>
        /\ r_rot.current_keys.encryption_key # Retired.encryption_key
        /\ r_rot.current_keys.encryption_key # Retired.next_key_seed
        /\ r_crypto[Server].encryption_key # Retired.next_key_seed

----------------------------------------------------------------------------
(* Claims about datagrams the server loop cannot read *)

\* the datagram the loop's next recvfrom returns, and whether it can be read
Unreadable(d) ==
    LET r == decrypt_packet(WKeys, d.data, <<>>)
    IN  ~r.ok \/ ~from_bytes(r.data).ok
\* this step is the loop receiving a datagram it cannot read
ReceivesUnreadable ==
    /\ w_to_server # <<>>
    /\ w_to_server' = Tail(w_to_server)
    /\ w_srv'.handled /\ w_srv'.data = Head(w_to_server).data
    /\ Unreadable(Head(w_to_server))
\* C30: a datagram that fails decryption or frame parsing is dropped by the server
\* loop: running stays true, peer_address and messages_received keep their
\* values and nothing is sent; the loop goes on to the next receive, running
\* being all that the next pass of the loop asks for
C30_BadDatagramDropped ==
    [][ReceivesUnreadable =>
          /\ w_running /\ w_running'
          /\ w_peer_address' = w_peer_address
          /\ w_received' = w_received
          /\ w_to_client' = w_to_client
          /\ ~w_srv'.accepted]_vars
\* of two datagrams received the loop has dropped the first and then accepted
\* the second, a message of the client
C30_Witness ==
    /\ w_running
    /\ w_sends = 2 /\ w_to_server = <<>>
    /\ w_received = 1 /\ w_peer_address = ClientAddr
    /\ w_srv.accepted /\ ~Unreadable([data |-> w_srv.data])

----------------------------------------------------------------------------
(* Claims about NAT detection *)

\* C31: get_hole_punch_strategy returns, for every NATType value, a record with
\* timeout, retries and success_rate and never raises; turn_fallback is set for
\* SYMMETRIC and for no other value
C31_StrategyTotal ==
    a_strategy.called =>
        /\ a_strategy.raised = "none"
        /\ {"timeout", "retries", "success_rate"} \subseteq DOMAIN a_strategy.value
        /\ ("turn_fallback" \in DOMAIN a_strategy.value /\ a_strategy.value.turn_fallback)
              <=> a_strategy.nat_type = "SYMMETRIC"

\* detect has returned
HasDetected == a_pc = "detected"
\* both probes of _check_mapping_consistency returned a mapping
BothMapped == Len(a_probes) = 3 /\ a_probes[2] # NoAddr /\ a_probes[3] # NoAddr
\* C32: detect returns BLOCKED when the first probe gets no response, OPEN when
\* the reported public IP is a local address, SYMMETRIC exactly when the two
\* probes return different mapped ports, and RESTRICTED_CONE only when both
\* probes returned a mapping and the mappings are identical
C32_Classification ==
    HasDetected =>
        /\ a_probes[1] = NoAddr => a_nat = "BLOCKED"
        /\ (a_probes[1] # NoAddr /\ a_probes[1].ip \in a_local) => a_nat = "OPEN"
        /\ a_nat = "SYMMETRIC" <=> (BothMapped /\ a_probes[2].port # a_probes[3].port)
        /\ a_nat = "RESTRICTED_CONE" => (BothMapped /\ a_probes[2] = a_probes[3])

----------------------------------------------------------------------------
(* Claims about the errors of decryption *)

\* the calls that raised
Failures == {c \in e_seen : ~c.ok}
\* C33: every way decrypt_packet and decrypt_file can fail (wrong key, corrupted
\* ciphertext, payload shorter than nonce plus tag) surfaces as one and the
\* same error kind, and decrypt_packet rejects a payload shorter than 28 bytes
\* before any decryption is attempted
C33_OneErrorKind ==
    /\ \A c \in e_seen : ~c.ok
    /\ \A c1, c2 \in Failures : c1.err = c2.err
    /\ \A c \in Failures :
         (c.fn = "decrypt_packet" /\ c.len < MinPacketLen) => ~c.aes_called

----------------------------------------------------------------------------
(* Claims about the frame of a Message *)

\* C34: for every Message m whose message_id is at most 255 bytes and whose
\* payload is a string-keyed JSON map, Message.from_bytes(m.to_bytes()) returns
\* a Message with the msg_type, payload, timestamp and message_id of m
C34_FrameRoundTrip ==
    (m_back.called /\ Len(m_msg.message_id) <= MaxIdByte) =>
        /\ m_back.raised = "none"
        /\ m_back.msg.msg_type = m_msg.msg_type
        /\ m_back.msg.payload = m_msg.payload
        /\ m_back.msg.timestamp = m_msg.timestamp
        /\ m_back.msg.message_id = m_msg.message_id
\* a Message with an id of 255 bytes has come back as it was
C34_Witness ==
    /\ m_back.called /\ m_back.raised = "none"
    /\ Len(m_msg.message_id) = MaxIdByte
    /\ m_back.msg = m_msg

----------------------------------------------------------------------------
(* Claims about a handler whose keys are destroyed, and about the ACK *)

\* C35: once a CompromisedProtocolHandler has reached KEYS_DESTROYED or
\* WAITING_FOR_NEW_KEYS, no later call of create_compromised_signal,
\* create_ack_signal, handle_compromised_signal or handle_ack_signal leaves it
\* in any other state
C35_DestroyedIsFinal ==
    [][\A p \in KPeers : k_state[p] \in DestroyedStates => k_state'[p] = k_state[p]]_vars

\* this step runs _destroy_keys on p, and no compromised signal on the network
\* is one p accepts: p has accepted an ACK
DestroysOnAck(p) ==
    /\ o_destroyed'[p] = o_destroyed[p] + 1
    /\ \A message \in k_net :
         ~handle_compromised_signal(KConnId, k_mac[p], message, k_now)
\* C36: handle_ack_signal destroys the keys only when the handler is in
\* SIGNAL_SENT; a correctly signed ACK that arrives in NORMAL leaves state and
\* keys as they were
C36_AckOnlyAfterSignal ==
    [][\A p \in KPeers : DestroysOnAck(p) => k_state[p] = "SIGNAL_SENT"]_vars

----------------------------------------------------------------------------
(* Claims about the keys of a server whose security file was regenerated *)

\* the security file generated last
LatestFile == s_files[Len(s_files)].document
\* the server has started and a later generate_file has produced a new file
Regenerated == s_server.started /\ Len(s_files) > 1
\* C37: whenever a new security file has been produced after the server
\* started, the session keys installed in the server were derived from the
\* shared secret and the connection_id that the newest file contains
C37_KeysFromLatestFile ==
    Regenerated =>
        /\ s_server.shared_secret = base64_decode(LatestFile.shared_secret)
        /\ s_server.connection_id = LatestFile.connection_id
        /\ s_server.keys = derive_session_keys(base64_decode(LatestFile.shared_secret),
                                               LatestFile.connection_id, s_server.timestamp)

----------------------------------------------------------------------------
(* Claims about the validity of the file the regeneration loop keeps *)

\* the window of the security file generated last: create_security_file reads
\* the clock in the second in which generate_file sets _last_file_time
LatestWindow ==
    [valid_from |-> g_last_file_time,
     valid_until |-> g_last_file_time + VALIDITY_MINUTES * 60]
----------------------------------------------------------------------------
(* Claims about the handshake when datagrams are lost *)

\* C39: when listen_for_punch() has returned success on one peer, the punch()
\* of the other peer does not end FAILED, whichever PUNCH or PUNCH_ACK
\* datagrams were lost: the pair never ends with one side CONNECTED and the
\* other FAILED
C39_NoSplitOutcome ==
    \A l \in Peers, p \in Peers :
        (h_mode[l] = "listen" /\ h_mode[p] = "punch" /\ h_state[l] = "CONNECTED")
            => h_state[p] # "FAILED"

----------------------------------------------------------------------------
(* Claims about a rotation whose message was not transmitted *)

\* C40: the server replaces its current keys only after the KEY_ROTATION
\* message of that rotation has been transmitted to a peer; a peer_address is
\* never forgotten, so a step that replaces the keys is taken only by a server
\* that knows one
C40_ReplacedOnlyAfterSent ==
    [][Replaces => r_peer]_vars
====
